---- MODULE Spec2Model ----
(***************************************************************************)
(* Outreach pipeline (src/pipeline.py, src/utils.py, src/schemas.py):      *)
(* the retrying stages, their heuristic fallbacks, the normalisation       *)
(* helpers and the structured-result parser.                               *)
(***************************************************************************)
EXTENDS Integers, Sequences, FiniteSets, TLC

(***************************************************************************)
(* Strings.  A string is a sequence of tokens [k, c, n]: kind, case and    *)
(* width in characters.  Runs ("sp" blanks, "nl" newlines, "x" and "z"     *)
(* letters) can be split at any character; atoms are whole words that the  *)
(* regular expressions of utils.py look for; symbols are punctuation.      *)
(* Strings are kept canonical (adjacent equal runs merged), so that        *)
(* equality of strings is equality of token sequences.                     *)
(***************************************************************************)
T(k, c, n) == [k |-> k, c |-> c, n |-> n]

RunKinds == {"sp", "nl", "x", "z"}

\* \s of the regular expressions, and what str.strip() removes
SpaceKinds == {"sp", "nl"}

AtomKinds == {"retail", "cookie", "home", "www", "livetrend", "followups", "equipe", "team"}

SymbolKinds == {".", "-", "/", "http://", "@", ":", ","}

IsRun(t) == t.k \in RunKinds

\* the widths of the tokens i..j of z, added up
RECURSIVE Width(_, _, _)
Width(z, i, j) == IF i > j THEN 0 ELSE z[i].n + Width(z, i + 1, j)

\* empty tokens dropped and adjacent runs of one kind and case merged
Canon(s) ==
  LET z == SelectSeq(s, LAMBDA t : t.n /= 0)
      Joins(i) == i > 1 /\ IsRun(z[i]) /\ z[i - 1].k = z[i].k /\ z[i - 1].c = z[i].c
      heads == SelectSeq([i \in 1..Len(z) |-> i], LAMBDA i : ~Joins(i))
      LastOf(h) == IF h = Len(heads) THEN Len(z) ELSE heads[h + 1] - 1
  IN [h \in DOMAIN heads |->
        T(z[heads[h]].k, z[heads[h]].c, Width(z, heads[h], LastOf(h)))]

Cat(s, t) == Canon(s \o t)

RECURSIVE StrLen(_)
StrLen(s) == IF s = <<>> THEN 0 ELSE s[1].n + StrLen(Tail(s))

\* str.lower()
LowerTok(t) == [t EXCEPT !.c = "l"]

Lower(s) == Canon([i \in DOMAIN s |-> LowerTok(s[i])])

\* str.strip(): leading and trailing whitespace removed
RECURSIVE LStrip(_)
LStrip(s) == IF s /= <<>> /\ s[1].k \in SpaceKinds THEN LStrip(Tail(s)) ELSE s

RECURSIVE RStrip(_)
RStrip(s) ==
  IF s /= <<>> /\ s[Len(s)].k \in SpaceKinds THEN RStrip(SubSeq(s, 1, Len(s) - 1)) ELSE s

Strip(s) == RStrip(LStrip(s))

\* the first n characters of a token; a word cut short is no longer that word
CutTok(t, n) ==
  IF IsRun(t) THEN <<T(t.k, t.c, n)>>
  ELSE IF t.c = "U" THEN <<T("x", "U", n)>>
  ELSE IF t.c = "C" THEN <<T("x", "U", 1), T("x", "l", n - 1)>>
  ELSE <<T("x", "l", n)>>

RECURSIVE TakeRaw(_, _)
TakeRaw(s, n) ==
  IF n <= 0 \/ s = <<>> THEN <<>>
  ELSE IF s[1].n <= n THEN <<s[1]>> \o TakeRaw(Tail(s), n - s[1].n)
  ELSE CutTok(s[1], n)

\* s[:n]
Take(s, n) == Canon(TakeRaw(s, n))

\* str.capitalize(): first character upper case, the rest lower case
Capitalize(s) ==
  IF s = <<>> THEN s
  ELSE LET h == s[1]
           rest == [i \in 1..(Len(s) - 1) |-> LowerTok(s[i + 1])]
           head == IF h.k \in {"x", "z"}
                   THEN <<T(h.k, "U", 1), T(h.k, "l", h.n - 1)>>
                   ELSE IF h.k \in AtomKinds THEN <<T(h.k, "C", h.n)>>
                   ELSE <<h>>
       IN Canon(head \o rest)

\* re.search(<alternation of words>, s, re.I): some whole word of the set occurs
HasWord(s, kinds) == \E i \in DOMAIN s : s[i].k \in kinds

\* first index of a token of kind k, 0 when there is none
RECURSIVE IndexFrom(_, _, _)
IndexFrom(s, k, i) ==
  IF i > Len(s) THEN 0
  ELSE IF s[i].k = k THEN i
  ELSE IndexFrom(s, k, i + 1)

\* str.split(sep) for a one-symbol separator
RECURSIVE Split(_, _)
Split(s, k) ==
  LET i == IndexFrom(s, k, 1) IN
  IF i = 0 THEN <<s>>
  ELSE <<SubSeq(s, 1, i - 1)>> \o Split(SubSeq(s, i + 1, Len(s)), k)

\* sub in s (substring test) for canonical strings
TokSuffixOf(a, b) == IF IsRun(a) THEN a.k = b.k /\ a.c = b.c /\ a.n <= b.n ELSE a = b

Contains(s, sub) ==
  LET m == Len(sub) IN
  IF m = 0 THEN TRUE
  ELSE \E i \in 1..Len(s) :
         /\ i + m - 1 <= Len(s)
         /\ TokSuffixOf(sub[1], s[i])
         /\ TokSuffixOf(sub[m], s[i + m - 1])
         /\ \A j \in 2..(m - 1) : sub[j] = s[i + j - 1]

\* s.endswith(suf) for canonical strings
EndsWith(s, suf) ==
  LET m == Len(suf)
      d == Len(s) - m IN
  IF m = 0 THEN TRUE
  ELSE /\ d >= 0
       /\ TokSuffixOf(suf[1], s[d + 1])
       /\ \A j \in 2..m : suf[j] = s[d + j]

(***************************************************************************)
(* Text helpers of src/utils.py                                            *)
(***************************************************************************)
\* words matched by _FASHION_WORDS (utils.py:210), case-insensitively
FASHION_WORDS == {"retail"}

\* words matched by _BAD_SNIPPET_RE (utils.py:202), case-insensitively
BAD_SNIPPET_RE == {"cookie"}

\* words matched by the name filter cookie|privacy|terms|login (utils.py:197)
NAME_NOISE_RE == {"cookie"}

\* re.search(r"https?://([^/]+)", url): index of the first scheme that is
\* followed by at least one character other than "/", 0 when there is none
RECURSIVE SchemeAt(_, _)
SchemeAt(url, i) ==
  IF i >= Len(url) THEN 0
  ELSE IF url[i].k = "http://" /\ url[i].c = "l" /\ url[i + 1].k /= "/" THEN i
  ELSE SchemeAt(url, i + 1)

_domain(url) ==
  LET i == SchemeAt(url, 1) IN
  IF i = 0 THEN url
  ELSE LET rest == SubSeq(url, i + 1, Len(url))
           j == IndexFrom(rest, "/", 1)
       IN IF j = 0 THEN rest ELSE SubSeq(rest, 1, j - 1)

_brand_from_domain(domain) ==
  LET all == Split(domain, ".")
      parts == SelectSeq(all, LAMBDA p : p /= <<>> /\ Lower(p) /= <<T("www", "l", 3)>>)
  IN IF Len(parts) >= 2 THEN Capitalize(parts[Len(parts) - 1])
     ELSE IF parts /= <<>> THEN Capitalize(parts[1])
     ELSE domain

\* re.sub(r"\s*[-|<bullet>].*$", "", title).strip(): the text before the
\* first separator
TitleHead(title) ==
  LET i == IndexFrom(title, "-", 1) IN
  Strip(IF i = 0 THEN title ELSE SubSeq(title, 1, i - 1))

_infer_company_name(title, url) ==
  LET clean == TitleHead(title) IN
  IF /\ title /= <<>>
     /\ clean /= <<>>
     /\ Lower(clean) /= <<T("home", "l", 4)>>
     /\ ~HasWord(clean, NAME_NOISE_RE)
  THEN clean
  ELSE _brand_from_domain(_domain(url))

\* the bound of why_fit, text.strip()[:160] (utils.py:208)
WHY_FIT_MAX == 160

_clean_why_fit(text, fallback) ==
  IF text = <<>> \/ HasWord(text, BAD_SNIPPET_RE) THEN fallback
  ELSE Take(Strip(text), WHY_FIT_MAX)

_excluded(domain, exclude_domains) ==
  LET d == Lower(domain) IN
  \/ \E ex \in exclude_domains : EndsWith(d, Lower(ex))
  \/ Contains(d, <<T("livetrend", "l", 9)>>)

(***************************************************************************)
(* Bounds of the model                                                     *)
(***************************************************************************)
\* largest value of the retries argument
MaxRetries == 2

\* longest company list in an agent answer
MaxCompanies == 2

\* largest num_companies (limit) argument
MaxLimit == 2

\* longest result list of one search call
MaxResults == 2

SeqUpTo(S, n) == UNION {[1..k -> S] : k \in 0..n}

Max(a, b) == IF a >= b THEN a ELSE b

Min(a, b) == IF a <= b THEN a ELSE b

\* s[:n] of a list
Prefix(s, n) == SubSeq(s, 1, Min(n, Len(s)))

Or(a, b) == IF a /= <<>> THEN a ELSE b

(***************************************************************************)
(* Sample strings the agent and the search capability answer with          *)
(***************************************************************************)
Sp == <<T("sp", "l", 1)>>

Zara == <<T("z", "U", 1), T("z", "l", 3)>>

RetailCo == <<T("retail", "C", 6), T("sp", "l", 1), T("z", "U", 1), T("z", "l", 1)>>

Com == <<T(".", "l", 1), T("x", "l", 3)>>

Http == <<T("http://", "l", 7)>>

UrlZara == Http \o <<T("z", "l", 4)>> \o Com

UrlZaraAbout == UrlZara \o <<T("/", "l", 1), T("x", "l", 5)>>

BareZara == <<T("z", "l", 4)>> \o Com

UrlHm == Http \o <<T("www", "l", 3), T(".", "l", 1), T("z", "l", 2)>> \o Com

UrlLivetrend == Http \o <<T("www", "l", 3), T(".", "l", 1), T("livetrend", "C", 9), T(".", "l", 1), T("x", "l", 2)>>

WhyRetail == <<T("retail", "l", 6), T("sp", "l", 1), T("x", "l", 20)>>

WhyPlain == <<T("x", "l", 20)>>

WhyCookie == <<T("cookie", "C", 6), T("sp", "l", 1), T("retail", "l", 6)>>

\* "Retailer/brand with ecommerce; matches targeting." (utils.py:262, 351)
FALLBACK_WHY == <<T("retail", "C", 6), T("x", "l", 43)>>

\* exclude_domains=["livetrend.co"] (pipeline.py:42, 44)
EXCLUDE_DOMAINS == {<<T("livetrend", "l", 9), T(".", "l", 1), T("x", "l", 2)>>}

NamePool == {Zara, RetailCo}

WebsitePool == {UrlZara, UrlZaraAbout, BareZara, UrlHm, UrlLivetrend}

WhyPool == {WhyRetail, WhyPlain, WhyCookie}

\* schemas.Company
Company(name, website, why_fit) == [name |-> name, website |-> website, why_fit |-> why_fit]

\* every name with every website, and every name with every why_fit
CompanyPool ==
  {Company(n, w, WhyRetail) : n \in NamePool, w \in WebsitePool}
    \cup {Company(n, UrlHm, y) : n \in NamePool, y \in WhyPool}

(***************************************************************************)
(* Normalisation of a company payload (utils.normalize_companies)          *)
(***************************************************************************)
\* NormalizeLoop with the `d in seen` test left out
RECURSIVE NormalizeLoopNoSeen(_, _, _, _)
NormalizeLoopNoSeen(cs, exclude_domains, seen, clean) ==
  IF cs = <<>> THEN clean
  ELSE LET c == cs[1]
           d == _domain(c.website)
       IN IF _excluded(d, exclude_domains)
          THEN NormalizeLoopNoSeen(Tail(cs), exclude_domains, seen, clean)
          ELSE LET name == _infer_company_name(c.name, c.website)
                   why == _clean_why_fit(c.why_fit, FALLBACK_WHY)
               IN IF ~HasWord(c.why_fit \o Sp \o name, FASHION_WORDS)
                  THEN NormalizeLoopNoSeen(Tail(cs), exclude_domains, seen \cup {d}, clean)
                  ELSE NormalizeLoopNoSeen(Tail(cs), exclude_domains, seen \cup {d},
                                           Append(clean, Company(name, c.website, why)))

RECURSIVE NormalizeLoop(_, _, _, _)
NormalizeLoop(cs, exclude_domains, seen, clean) ==
  IF cs = <<>> THEN clean
  ELSE LET c == cs[1]
           d == _domain(c.website)
       IN IF _excluded(d, exclude_domains) \/ d \in seen
          THEN NormalizeLoop(Tail(cs), exclude_domains, seen, clean)
          ELSE LET name == _infer_company_name(c.name, c.website)
                   why == _clean_why_fit(c.why_fit, FALLBACK_WHY)
               IN IF ~HasWord(c.why_fit \o Sp \o name, FASHION_WORDS)
                  THEN NormalizeLoop(Tail(cs), exclude_domains, seen \cup {d}, clean)
                  ELSE NormalizeLoop(Tail(cs), exclude_domains, seen \cup {d},
                                     Append(clean, Company(name, c.website, why)))

normalize_companies(payload, exclude_domains) ==
  NormalizeLoop(payload, exclude_domains, {}, <<>>)

(***************************************************************************)
(* State                                                                   *)
(***************************************************************************)
VARIABLES
  stage,            \* the stage function that was called
  pc,               \* its position: "loop", "after", "search", "post", "done", "raised"
  retries,          \* argument retries
  allow_fallbacks,  \* argument allow_fallbacks
  num_companies,    \* argument num_companies
  exa,              \* TRUE when _get_exa() yields a client
  companies,        \* argument companies (the records of a CompaniesPayload)
  contacts,         \* argument contacts (the records of a ContactsPayload)
  research,         \* argument research (the records of a ResearchPayload)
  emails,           \* argument emails (the records of an EmailsPayload)
  sender,           \* argument sender
  style,            \* argument style
  json_text,        \* parse_json_safe: argument text
  default,          \* parse_json_safe: argument default
  main,             \* main(): "" when a stage is called on its own, else "run", "ok", "failed"
  qc_enabled,       \* main(): the quality-check switch
  exports,          \* main(): the prefixes of the export files written so far
  heap,             \* the objects of a call of normalize_companies or clean_research:
                    \* [objs, arg, res], an object's id being its index in objs
  attempt,          \* local attempt
  payload,          \* local payload; the value returned once pc = "done"
  raw,              \* payload as it was before the stage's post-processing; in the
                    \* email stage, the answer's records that the payload was built from
  calls,            \* number of agent.run invocations so far
  fallback,         \* TRUE once the heuristic strategy was invoked
  err,              \* the exception that left the stage, [at, exc]
  ci,               \* fallback strategy: index of the company being looked up
  qi,               \* fallback strategy: index of the role or query
  acc,              \* fallback strategy: contacts or insights of this company
  out,              \* fallback strategy: entries of the companies done
  lead,             \* contact strategy: the person name that the title of the first
                    \* result of the latest search begins with, <<>> when there is none
  num_results       \* company strategy: the num_results of its search request, 0
                    \* while it has made none

args == <<stage, retries, allow_fallbacks, num_companies, exa, companies,
          contacts, research, emails, sender, style, json_text, default,
          main, qc_enabled, exports, heap>>

walk == <<ci, qi, acc, out, lead, num_results>>

vars == <<args, pc, attempt, payload, raw, calls, fallback, err, walk>>

NoErr == [at |-> "", exc |-> ""]

Raise(at, exc) == /\ pc' = "raised"
                  /\ err' = [at |-> at, exc |-> exc]

(***************************************************************************)
(* An agent answer after response_text and parse_json_safe: the data the   *)
(* stage validates.  shape is what the parsed value is; items are the      *)
(* elements of the list under the stage's key, each a record of the        *)
(* stage's schema (valid) or anything else (not valid).                    *)
(*   "nonmap"  a JSON list, number, string or null                         *)
(*   "nokey"   a mapping without the stage's key                           *)
(*   "null"    a mapping whose key holds null                              *)
(*   "scalar"  a mapping whose key holds a number or a string              *)
(*   "list"    a mapping whose key holds a list (the parser's default is   *)
(*             the empty list)                                             *)
(***************************************************************************)
Shapes == {"nonmap", "nokey", "null", "scalar"}

Odd(shape) == [shape |-> shape, items |-> <<>>]

Item(v) == [valid |-> TRUE, v |-> v]

Junk(v) == [valid |-> FALSE, v |-> v]

Listed(items) == [shape |-> "list", items |-> items]

Values(items) == [i \in DOMAIN items |-> items[i].v]

\* <Payload>(**data) under try/except ValidationError (pipeline.py:33-36):
\* the records, <<>> after a ValidationError, or the exception that escapes
Validate(data) ==
  CASE data.shape = "nonmap" -> [exc |-> "TypeError", recs |-> <<>>]
    [] data.shape = "list" /\ (\A i \in DOMAIN data.items : data.items[i].valid)
         -> [exc |-> "", recs |-> Values(data.items)]
    [] OTHER -> [exc |-> "", recs |-> <<>>]

\* the locals at the entry of a stage
\* no object is followed
NoHeap == [objs |-> <<>>, arg |-> 0, res |-> 0]

Fresh ==
  /\ heap = NoHeap
  /\ attempt = 0
  /\ payload = <<>>
  /\ raw = <<>>
  /\ calls = 0
  /\ fallback = FALSE
  /\ err = NoErr
  /\ ci = 0 /\ qi = 0 /\ acc = <<>> /\ out = <<>> /\ lead = <<>>
  /\ num_results = 0

NoSender == [name |-> <<>>, company |-> <<>>]

\* the answers a stage may get: any of `alone` when the stage is called on
\* its own, one of the few of `piped` when main() runs the whole pipeline
Drawn(alone, piped) == IF main = "" THEN alone ELSE piped

\* `while attempt <= max(1, retries)` (pipeline.py:28, 59, 86, 121)
LoopBound(r) == Max(1, r)

\* the loop going on after a pass that yielded records
EndOfPassNoBreak(p) ==
  /\ payload' = p
  /\ attempt' = attempt + 1
  /\ pc' = IF attempt + 1 <= LoopBound(retries) THEN "loop" ELSE "after"

\* the end of one pass of the retry loop: break on a non-empty payload,
\* else attempt += 1 and test the loop condition
EndOfPass(p) ==
  /\ payload' = p
  /\ IF p /= <<>>
     THEN attempt' = attempt /\ pc' = "after"
     ELSE /\ attempt' = attempt + 1
          /\ pc' = IF attempt + 1 <= LoopBound(retries) THEN "loop" ELSE "after"

(***************************************************************************)
(* Company discovery fallback (utils.discover_companies_via_exa)           *)
(***************************************************************************)
\* a search result: an object of the client's result class (obj) or a dict;
\* an absent field is <<>>
Result(obj, url, title, text) == [obj |-> obj, url |-> url, title |-> title, text |-> text]

\* `getattr(r, f, None) or r.get(f, "")` raises AttributeError on an object
\* whose field is absent
FieldRaises(r, v) == r.obj /\ v = <<>>

RECURSIVE DiscoverLoop(_, _, _, _, _)
DiscoverLoop(items, limit, exclude_domains, seen, cs) ==
  IF items = <<>> THEN [exc |-> "", recs |-> cs]
  ELSE LET r == items[1]
           domain == _domain(r.url)
       IN IF FieldRaises(r, r.url) \/ FieldRaises(r, r.title) \/ FieldRaises(r, r.text)
          THEN [exc |-> "AttributeError", recs |-> <<>>]
          ELSE IF _excluded(domain, exclude_domains) \/ domain \in seen
          THEN DiscoverLoop(Tail(items), limit, exclude_domains, seen, cs)
          ELSE LET name == _infer_company_name(r.title, r.url)
                   why == _clean_why_fit(Or(r.text, r.title), FALLBACK_WHY)
                   more == Append(cs, Company(name, r.url, why))
               IN IF ~HasWord(Or(r.text, r.title), FASHION_WORDS)
                  THEN DiscoverLoop(Tail(items), limit, exclude_domains, seen \cup {domain}, cs)
                  ELSE IF Len(more) >= limit
                  THEN [exc |-> "", recs |-> more]
                  ELSE DiscoverLoop(Tail(items), limit, exclude_domains,
                                    seen \cup {domain}, more)

\* the outcome of one search call: it raised, or it returned items
Raised == [raised |-> TRUE, items |-> <<>>]

Found(items) == [raised |-> FALSE, items |-> items]

SearchOutcomes(pool) == {Raised} \cup {Found(it) : it \in SeqUpTo(pool, MaxResults)}

\* `num_results=limit * 2` (utils.py:243, 247)
SearchRequest(limit) == limit * 2

\* found: the outcome of search_and_contents or, when that raised, of search
\* (utils.py:242-250)
discover_companies_via_exa(client, found, limit, exclude_domains) ==
  IF ~client \/ found.raised THEN [exc |-> "", recs |-> <<>>]
  ELSE DiscoverLoop(found.items, limit, exclude_domains, {}, <<>>)

TitlePool == {<<>>, Zara \o Sp \o <<T("-", "l", 1)>> \o Sp \o <<T("retail", "l", 6)>>}

TextPool == {<<>>, WhyRetail, WhyPlain}

UrlPool == {UrlZara, UrlZaraAbout, UrlHm, UrlLivetrend}

\* dicts of every url, and objects of one url, with every title and text
ResultPool ==
  {Result(FALSE, u, ti, te) : u \in UrlPool, ti \in TitlePool, te \in TextPool}
    \cup {Result(TRUE, UrlZara, ti, te) : ti \in TitlePool, te \in TextPool}

(***************************************************************************)
(* run_company_finder (pipeline.py:18-45)                                  *)
(***************************************************************************)
CompanyReplies ==
  {Odd(sh) : sh \in Shapes}
    \cup {Listed(it) : it \in SeqUpTo({Item(c) : c \in CompanyPool} \cup {Junk(<<>>)}, MaxCompanies)}

CompanyAnswers ==
  {Odd("nonmap"), Listed(<<>>), Listed(<<Item(Company(Zara, UrlZara, WhyRetail))>>),
   Listed(<<Item(Company(Zara, UrlZara, WhyRetail)), Item(Company(RetailCo, UrlHm, WhyPlain))>>),
   Listed(<<Item(Company(Zara, UrlHm, WhyPlain))>>)}

\* a text whose only keyword lies beyond the first WHY_FIT_MAX characters
WhyLate == <<T("x", "l", WHY_FIT_MAX), T("sp", "l", 1), T("retail", "l", 6)>>

\* the outcomes of the search of the strategy: every list of ResultPool, and
\* one result with the late keyword
CompanyOutcomes ==
  SearchOutcomes(ResultPool) \cup {Found(<<Result(FALSE, UrlZara, <<>>, WhyLate)>>)}

CompanyHits ==
  {Raised, Found(<<>>),
   Found(<<Result(FALSE, UrlZara, <<>>, WhyRetail), Result(FALSE, UrlHm, <<>>, WhyRetail)>>),
   Found(<<Result(TRUE, UrlZara, <<>>, WhyRetail)>>)}

InitCompany ==
  /\ stage = "company"
  /\ pc = "loop"
  /\ retries \in 0..MaxRetries
  /\ allow_fallbacks \in BOOLEAN
  /\ num_companies \in 1..MaxLimit
  /\ exa \in BOOLEAN
  /\ companies = <<>> /\ contacts = <<>> /\ research = <<>> /\ emails = <<>>
  /\ sender = NoSender /\ style = ""
  /\ json_text = <<>> /\ default = <<>>
  /\ main = "" /\ qc_enabled = FALSE /\ exports = {}
  /\ Fresh

\* one pass of the loop, pipeline.py:28-39
CompanyAttempt ==
  /\ stage = "company" /\ pc = "loop"
  /\ calls' = calls + 1
  /\ \/ /\ Raise("agent.run", "Exception")
        /\ UNCHANGED <<attempt, payload>>
     \/ \E data \in Drawn(CompanyReplies, CompanyAnswers) :
          LET v == Validate(data) IN
          IF v.exc /= ""
          THEN Raise("payload", v.exc) /\ UNCHANGED <<attempt, payload>>
          ELSE EndOfPass(v.recs) /\ UNCHANGED err
  /\ UNCHANGED <<args, raw, fallback, walk>>

\* the strategy entered whatever the switch
CompanyFallbackUnguarded ==
  /\ stage = "company" /\ pc = "after"
  /\ payload = <<>>
  /\ fallback' = TRUE
  /\ \E found \in Drawn(CompanyOutcomes, CompanyHits) :
       LET res == discover_companies_via_exa(exa, found, num_companies, EXCLUDE_DOMAINS) IN
       IF res.exc /= ""
       THEN Raise("fallback", res.exc) /\ UNCHANGED payload
       ELSE payload' = res.recs /\ pc' = "post" /\ UNCHANGED err
  /\ num_results' = (IF exa THEN SearchRequest(num_companies) ELSE num_results)
  /\ UNCHANGED <<args, attempt, raw, calls, ci, qi, acc, out, lead>>

\* pipeline.py:40-42
CompanyFallback ==
  /\ stage = "company" /\ pc = "after"
  /\ payload = <<>> /\ allow_fallbacks
  /\ fallback' = TRUE
  /\ \E found \in Drawn(CompanyOutcomes, CompanyHits) :
       LET res == discover_companies_via_exa(exa, found, num_companies, EXCLUDE_DOMAINS) IN
       IF res.exc /= ""
       THEN Raise("fallback", res.exc) /\ UNCHANGED payload
       ELSE payload' = res.recs /\ pc' = "post" /\ UNCHANGED err
  /\ num_results' = (IF exa THEN SearchRequest(num_companies) ELSE num_results)
  /\ UNCHANGED <<args, attempt, raw, calls, ci, qi, acc, out, lead>>

\* pipeline.py:44-45
CompanyReturn ==
  /\ stage = "company"
  /\ \/ pc = "post"
     \/ pc = "after" /\ ~(payload = <<>> /\ allow_fallbacks)
  /\ raw' = payload
  /\ payload' = IF payload /= <<>> THEN normalize_companies(payload, EXCLUDE_DOMAINS) ELSE payload
  /\ pc' = "done"
  /\ UNCHANGED <<args, attempt, calls, fallback, err, walk>>

NextCompany == CompanyAttempt \/ CompanyFallback \/ CompanyReturn

SpecCompany == InitCompany /\ [][NextCompany]_vars

(***************************************************************************)
(* discover_companies_via_exa called on its own (utils.py:232-268)         *)
(***************************************************************************)
\* the results of ResultPool, and results whose title is a name with a
\* keyword of FASHION_WORDS
DiscoverPool ==
  ResultPool \cup {Result(FALSE, u, RetailCo, te) : u \in {UrlZara, UrlHm}, te \in TextPool}

\* raw holds what the search capability answers to the request
InitDiscover ==
  /\ stage = "discover_companies_via_exa"
  /\ pc = "call"
  /\ retries = 0
  /\ allow_fallbacks = FALSE
  /\ num_companies \in 0..MaxLimit
  /\ exa \in BOOLEAN
  /\ companies = <<>> /\ contacts = <<>> /\ research = <<>> /\ emails = <<>>
  /\ sender = NoSender /\ style = ""
  /\ json_text = <<>> /\ default = <<>>
  /\ main = "" /\ qc_enabled = FALSE /\ exports = {}
  /\ heap = NoHeap
  /\ attempt = 0 /\ payload = <<>> /\ calls = 0 /\ fallback = FALSE
  /\ raw \in (IF exa THEN SearchOutcomes(DiscoverPool) ELSE {Found(<<>>)})
  /\ err = NoErr
  /\ ci = 0 /\ qi = 0 /\ acc = <<>> /\ out = <<>> /\ lead = <<>>
  /\ num_results = 0

\* utils.py:232-268
DiscoverCall ==
  /\ stage = "discover_companies_via_exa" /\ pc = "call"
  /\ LET res == discover_companies_via_exa(exa, raw, num_companies, EXCLUDE_DOMAINS) IN
     IF res.exc /= ""
     THEN Raise("fallback", res.exc) /\ UNCHANGED payload
     ELSE payload' = res.recs /\ pc' = "done" /\ UNCHANGED err
  /\ num_results' = (IF exa THEN SearchRequest(num_companies) ELSE num_results)
  /\ UNCHANGED <<args, attempt, raw, calls, fallback, ci, qi, acc, out, lead>>

SpecDiscover == InitDiscover /\ [][DiscoverCall]_vars

(***************************************************************************)
(* Contact discovery fallback (utils.find_contacts_via_exa)                *)
(***************************************************************************)
\* the names utils.py binds at module level (imports and definitions,
\* utils.py:1-409) among those its functions call
UtilsGlobals == {"_get_exa", "_domain", "_brand_from_domain", "_infer_company_name",
                 "_clean_why_fit", "_extract_key_points", "_excluded", "log_info"}

\* roles (utils.py:275-283)
ROLES == <<"Head of Buying", "Merchandising Director", "VP Merchandising", "GTM Lead",
           "Partnerships Manager", "Product Marketing", "Founder">>

\* cap of the contacts of one company (utils.py:304, 306)
CONTACTS_MAX == 2

IsLetters(t) == t.k \in {"x", "z"} \cup AtomKinds

\* length of the longest prefix of s made of letters
RECURSIVE WordEnd(_, _)
WordEnd(s, i) == IF i <= Len(s) /\ IsLetters(s[i]) THEN WordEnd(s, i + 1) ELSE i - 1

\* [A-Z][a-zA-Z]+ at the start of s: index of its last token, 0 when no match
NameWord(s) ==
  LET e == WordEnd(s, 1) IN
  IF e >= 1 /\ s[1].c \in {"U", "C"} /\ StrLen(SubSeq(s, 1, e)) >= 2 THEN e ELSE 0

\* re.match(r"([A-Z][a-zA-Z]+\s+[A-Z][a-zA-Z]+)", title) (livetrend_outreach_demo.py:307-309)
_infer_person_from_title(title) ==
  LET e1 == NameWord(title) IN
  IF e1 = 0 \/ e1 + 1 > Len(title) \/ title[e1 + 1].k \notin SpaceKinds THEN <<>>
  ELSE LET rest == SubSeq(title, e1 + 2, Len(title))
           e2 == NameWord(rest)
       IN IF e2 = 0 THEN <<>> ELSE SubSeq(title, 1, e1 + 1 + e2)

\* person_name.split(" ") keeps parts[0] and parts[-1]
FirstPart(s) == LET i == IndexFrom(s, "sp", 1) IN IF i = 0 THEN s ELSE SubSeq(s, 1, i - 1)

RECURSIVE LastPart(_)
LastPart(s) ==
  LET i == IndexFrom(s, "sp", 1) IN
  IF i = 0 THEN s
  ELSE IF s[i].n > 1 /\ i = Len(s) THEN <<>>
  ELSE LastPart(SubSeq(s, i + 1, Len(s)))

\* livetrend_outreach_demo.py:312-319; <<>> stands for None
_infer_email(person_name, domain) ==
  IF person_name = <<>> \/ domain = <<>> THEN <<>>
  ELSE Cat(Lower(FirstPart(person_name) \o <<T(".", "l", 1)>> \o LastPart(person_name)),
           <<T("@", "l", 1)>> \o Lower(domain))

\* schemas.Contact
Contact(name, role, email, inferred, source) ==
  [name |-> name, role |-> role, email |-> email, inferred |-> inferred, source |-> source]

\* schemas.ContactsPerCompany
ContactsPerCompany(company, cts) == [company |-> company, contacts |-> cts]

\* the body of `for r in items` under try (utils.py:296-301): the contacts
\* list after the loop and whether an exception ended the loop
RECURSIVE ContactItems(_, _, _, _)
ContactItems(items, role, domain, cts) ==
  IF items = <<>> THEN [exc |-> "", recs |-> cts]
  ELSE LET r == items[1] IN
       IF FieldRaises(r, r.title) \/ FieldRaises(r, r.url)
       THEN [exc |-> "AttributeError", recs |-> cts]
       ELSE IF "_infer_person_from_title" \notin UtilsGlobals
       THEN [exc |-> "NameError", recs |-> cts]
       ELSE LET person == _infer_person_from_title(r.title) IN
            IF person = <<>> THEN ContactItems(Tail(items), role, domain, cts)
            ELSE IF "_infer_email" \notin UtilsGlobals
            THEN [exc |-> "NameError", recs |-> cts]
            ELSE ContactItems(Tail(items), role, domain,
                   Append(cts, Contact(person, role, _infer_email(person, domain), TRUE, r.url)))

\* a search that raises ending the lookup of the company, empty-handed
RoleQueryAborting(found, role, domain, cts) ==
  IF found.raised THEN [recs |-> <<>>, more |-> FALSE]
  ELSE LET res == ContactItems(found.items, role, domain, cts) IN
       [recs |-> res.recs, more |-> res.exc /= "" \/ Len(res.recs) < CONTACTS_MAX]

\* one pass of `for role in roles` (utils.py:289-305) given the outcome of
\* exa.search: the contacts list, and whether the loop over roles goes on
RoleQuery(found, role, domain, cts) ==
  IF found.raised THEN [recs |-> cts, more |-> TRUE]
  ELSE LET res == ContactItems(found.items, role, domain, cts) IN
       [recs |-> res.recs, more |-> res.exc /= "" \/ Len(res.recs) < CONTACTS_MAX]

AnnLee == <<T("x", "U", 1), T("x", "l", 2), T("sp", "l", 1), T("x", "U", 1), T("x", "l", 2)>>

PersonTitlePool == {<<>>, AnnLee \o Sp \o <<T("-", "l", 1)>> \o Sp \o Zara, WhyPlain}

PersonResultPool == {Result(o, u, ti, <<>>) : o \in BOOLEAN, u \in {<<>>, UrlZara}, ti \in PersonTitlePool}

(***************************************************************************)
(* run_contact_finder (pipeline.py:48-74)                                  *)
(***************************************************************************)
AnnAtZara == _infer_email(AnnLee, _domain(UrlZara))

ContactPool == {Contact(AnnLee, "Founder", AnnAtZara, TRUE, <<>>),
                Contact(AnnLee, "GTM Lead", <<>>, TRUE, UrlZara)}

\* an agent answer lists up to one contact more than the cap of the fallback
ContactEntryPool ==
  {ContactsPerCompany(n, cts) : n \in NamePool, cts \in SeqUpTo(ContactPool, CONTACTS_MAX + 1)}

\* an agent answer has up to one entry per known company name
ContactReplies ==
  {Odd(sh) : sh \in Shapes}
    \cup {Listed(it) : it \in SeqUpTo({Item(e) : e \in ContactEntryPool}
                                        \cup {Junk(ContactsPerCompany(<<>>, <<>>))},
                                      Cardinality(NamePool))}

\* company payloads handed to the later stages
TwoCompanies == <<Company(Zara, UrlZara, WhyRetail), Company(RetailCo, UrlHm, WhyPlain)>>

CompanyInputs == {<<>>, Prefix(TwoCompanies, 1), TwoCompanies}

ContactAnswers ==
  {Odd("nonmap"), Listed(<<>>),
   Listed(<<Item(ContactsPerCompany(Zara, <<Contact(AnnLee, "Founder", AnnAtZara, TRUE, <<>>)>>))>>),
   Listed(<<Item(ContactsPerCompany(Zara, <<Contact(AnnLee, "Founder", AnnAtZara, TRUE, <<>>),
                                            Contact(AnnLee, "GTM Lead", <<>>, TRUE, UrlZara)>>)),
            Item(ContactsPerCompany(RetailCo, <<>>))>>)}

PersonHits ==
  {Raised, Found(<<>>),
   Found(<<Result(FALSE, UrlZara, AnnLee \o Sp \o <<T("-", "l", 1)>> \o Sp \o Zara, <<>>)>>)}

InitContact ==
  /\ stage = "contact"
  /\ pc = "loop"
  /\ retries \in 0..MaxRetries
  /\ allow_fallbacks \in BOOLEAN
  /\ num_companies = 0
  /\ exa \in BOOLEAN
  /\ companies \in CompanyInputs
  /\ contacts = <<>> /\ research = <<>> /\ emails = <<>>
  /\ sender = NoSender /\ style = ""
  /\ json_text = <<>> /\ default = <<>>
  /\ main = "" /\ qc_enabled = FALSE /\ exports = {}
  /\ Fresh

\* one pass of the loop, pipeline.py:59-70
ContactAttempt ==
  /\ stage = "contact" /\ pc = "loop"
  /\ calls' = calls + 1
  /\ \/ /\ Raise("agent.run", "Exception")
        /\ UNCHANGED <<attempt, payload>>
     \/ \E data \in Drawn(ContactReplies, ContactAnswers) :
          LET v == Validate(data) IN
          IF v.exc /= ""
          THEN Raise("payload", v.exc) /\ UNCHANGED <<attempt, payload>>
          ELSE EndOfPass(v.recs) /\ UNCHANGED err
  /\ UNCHANGED <<args, raw, fallback, walk>>

\* the lookup of the next company starts, or the strategy returns out
NextCompanyOrReturn(entries) ==
  IF ci < Len(companies)
  THEN /\ ci' = ci + 1 /\ qi' = 1 /\ acc' = <<>> /\ out' = entries
       /\ UNCHANGED <<pc, payload>>
  ELSE /\ payload' = entries /\ pc' = "post"
       /\ ci' = 0 /\ qi' = 0 /\ acc' = <<>> /\ out' = <<>>

\* pipeline.py:71-73 and utils.py:272-285: the strategy is entered
ContactFallback ==
  /\ stage = "contact" /\ pc = "after"
  /\ payload = <<>> /\ allow_fallbacks
  /\ fallback' = TRUE
  /\ IF exa /\ companies /= <<>>
     THEN /\ pc' = "search"
          /\ ci' = 1 /\ qi' = 1 /\ acc' = <<>> /\ out' = <<>> /\ lead' = <<>>
          /\ UNCHANGED num_results
          /\ UNCHANGED payload
     ELSE /\ pc' = "post"
          /\ payload' = <<>>
          /\ UNCHANGED walk
  /\ UNCHANGED <<args, attempt, raw, calls, err>>

\* the name that `[A-Z][a-zA-Z]+\s+[A-Z][a-zA-Z]+` matches at the start of
\* the title of the first result, when its title and url can be read
Lead(found) ==
  IF found.raised \/ found.items = <<>> THEN <<>>
  ELSE LET r == found.items[1] IN
       IF FieldRaises(r, r.title) \/ FieldRaises(r, r.url) THEN <<>>
       ELSE _infer_person_from_title(r.title)

\* utils.py:289-306: the query of one role for one company
ContactSearch ==
  /\ stage = "contact" /\ pc = "search"
  /\ \E found \in Drawn(SearchOutcomes(PersonResultPool), PersonHits) :
       LET c == companies[ci]
           res == RoleQuery(found, ROLES[qi], _domain(c.website), acc)
       IN /\ lead' = Lead(found)
          /\ IF res.more /\ qi < Len(ROLES)
             THEN /\ qi' = qi + 1 /\ acc' = res.recs
                  /\ UNCHANGED <<pc, payload, ci, out>>
             ELSE NextCompanyOrReturn(
                    Append(out, ContactsPerCompany(c.name, Prefix(res.recs, CONTACTS_MAX))))
  /\ UNCHANGED <<args, attempt, raw, calls, fallback, err, num_results>>

\* pipeline.py:74
ContactReturn ==
  /\ stage = "contact"
  /\ \/ pc = "post"
     \/ pc = "after" /\ ~(payload = <<>> /\ allow_fallbacks)
  /\ pc' = "done"
  /\ UNCHANGED <<args, attempt, payload, raw, calls, fallback, err, walk>>

NextContact == ContactAttempt \/ ContactFallback \/ ContactSearch \/ ContactReturn

SpecContact == InitContact /\ [][NextContact]_vars

(***************************************************************************)
(* The demo's contact discovery (livetrend_outreach_demo.exa_find_contacts) *)
(***************************************************************************)
\* the body of `for r in items` under try (livetrend_outreach_demo.py:118-129)
RECURSIVE ExaContactItems(_, _, _, _)
ExaContactItems(items, role, domain, cts) ==
  IF items = <<>> THEN [exc |-> "", recs |-> cts]
  ELSE LET r == items[1] IN
       IF FieldRaises(r, r.title) \/ FieldRaises(r, r.url)
       THEN [exc |-> "AttributeError", recs |-> cts]
       ELSE LET person == _infer_person_from_title(r.title) IN
            IF person = <<>> THEN ExaContactItems(Tail(items), role, domain, cts)
            ELSE ExaContactItems(Tail(items), role, domain,
                   Append(cts, Contact(person, role, _infer_email(person, domain), TRUE, r.url)))

\* a pass that never ends the loop over the roles
ExaRoleQueryNoBreak(found, role, domain, cts) ==
  IF found.raised THEN [recs |-> cts, more |-> TRUE]
  ELSE [recs |-> ExaContactItems(found.items, role, domain, cts).recs, more |-> TRUE]

\* one pass of `for role in roles` (livetrend_outreach_demo.py:113-133): an
\* exception goes on to the next role before the length test
ExaRoleQuery(found, role, domain, cts) ==
  IF found.raised THEN [recs |-> cts, more |-> TRUE]
  ELSE LET res == ExaContactItems(found.items, role, domain, cts) IN
       [recs |-> res.recs, more |-> res.exc /= "" \/ Len(res.recs) < CONTACTS_MAX]

\* the call of livetrend_outreach_demo.py:252 for one company
InitDemoContact ==
  /\ stage = "exa_find_contacts"
  /\ pc = "search"
  /\ retries = 0
  /\ allow_fallbacks = FALSE
  /\ num_companies = 0
  /\ exa = TRUE
  /\ companies \in {<<c>> : c \in CompanyPool}
  /\ contacts = <<>> /\ research = <<>> /\ emails = <<>>
  /\ sender = NoSender /\ style = ""
  /\ json_text = <<>> /\ default = <<>>
  /\ main = "" /\ qc_enabled = FALSE /\ exports = {}
  /\ heap = NoHeap
  /\ attempt = 0 /\ payload = <<>> /\ raw = <<>> /\ calls = 0 /\ fallback = FALSE
  /\ err = NoErr
  /\ ci = 1 /\ qi = 1 /\ acc = <<>> /\ out = <<>> /\ lead = <<>>
  /\ num_results = 0

\* livetrend_outreach_demo.py:113-134: the query of one role; the list
\* returned becomes the company's entry of contacts_map (line 252)
ExaFindContactsSearch ==
  /\ stage = "exa_find_contacts" /\ pc = "search"
  /\ \E found \in SearchOutcomes(PersonResultPool) :
       LET c == companies[ci]
           res == ExaRoleQuery(found, ROLES[qi], _domain(c.website), acc)
       IN /\ lead' = Lead(found)
          /\ IF res.more /\ qi < Len(ROLES)
             THEN /\ qi' = qi + 1 /\ acc' = res.recs
                  /\ UNCHANGED <<pc, payload, ci, out>>
             ELSE /\ payload' = <<ContactsPerCompany(c.name, Prefix(res.recs, CONTACTS_MAX))>>
                  /\ pc' = "done"
                  /\ ci' = 0 /\ qi' = 0 /\ acc' = <<>> /\ out' = <<>>
  /\ UNCHANGED <<args, attempt, raw, calls, fallback, err, num_results>>

\* contact discovery of the pipeline and of the demo
SpecContacts == (InitContact \/ InitDemoContact) /\ [][NextContact \/ ExaFindContactsSearch]_vars

(***************************************************************************)
(* Research collection fallback (utils.collect_research_via_exa) and       *)
(* cleaning (utils.clean_research)                                         *)
(***************************************************************************)
\* shortest and longest key point, `40 <= len(s) <= 200` (utils.py:220)
POINT_MIN == 40

POINT_MAX == 200

\* cap of the insights of one company (utils.py:222, 333, 369)
INSIGHTS_MAX == 4

\* index of the first whitespace run that follows a sentence end, 0 when none
RECURSIVE BreakAt(_, _)
BreakAt(s, i) ==
  IF i > Len(s) THEN 0
  ELSE IF s[i].k \in SpaceKinds /\ s[i - 1].k = "." THEN i
  ELSE BreakAt(s, i + 1)

\* re.split(r"(?<=[.!?])\s+", text)
RECURSIVE Sentences(_)
Sentences(s) ==
  LET i == BreakAt(s, 2) IN
  IF i = 0 THEN <<s>>
  ELSE <<SubSeq(s, 1, i - 1)>> \o Sentences(SubSeq(s, i + 1, Len(s)))

RECURSIVE KeyPoints(_, _, _)
KeyPoints(sentences, brand, points) ==
  IF sentences = <<>> THEN points
  ELSE LET sn == sentences[1]
           ls == Lower(sn)
       IN IF brand /= <<>> /\ ~Contains(ls, Lower(brand)) /\ ~HasWord(ls, FASHION_WORDS)
          THEN KeyPoints(Tail(sentences), brand, points)
          ELSE IF POINT_MIN <= StrLen(sn) /\ StrLen(sn) <= POINT_MAX
          THEN KeyPoints(Tail(sentences), brand, Append(points, Strip(sn)))
          ELSE KeyPoints(Tail(sentences), brand, points)

\* utils.py:213-222
_extract_key_points(text, brand) == Prefix(KeyPoints(Sentences(text), brand, <<>>), INSIGHTS_MAX)

InSeq(x, s) == \E i \in DOMAIN s : s[i] = x

\* `if pt not in insights: insights.append(pt)` for the points of one text
RECURSIVE AddPoints(_, _)
AddPoints(points, insights) ==
  IF points = <<>> THEN insights
  ELSE AddPoints(Tail(points),
                 IF InSeq(points[1], insights) THEN insights ELSE Append(insights, points[1]))

\* the body of `for r in items` under try (utils.py:326-330)
RECURSIVE ResearchItems(_, _, _)
ResearchItems(items, brand, insights) ==
  IF items = <<>> THEN insights
  ELSE LET r == items[1] IN
       IF FieldRaises(r, r.text) THEN insights
       ELSE ResearchItems(Tail(items), brand, AddPoints(_extract_key_points(r.text, brand), insights))

\* one pass of `for q in queries` (utils.py:320-332) given the outcome of
\* exa.search_and_contents
ResearchQuery(found, brand, insights) ==
  IF found.raised THEN insights ELSE ResearchItems(found.items, brand, insights)

\* queries per company (utils.py:319)
QUERIES == 2

\* schemas.ResearchPerCompany
ResearchPerCompany(company, insights) == [company |-> company, insights |-> insights]

\* Unique keyed by the sentence as it is, without strip().lower()
RECURSIVE UniqueExact(_, _, _)
UniqueExact(ps, seen, unique) ==
  IF ps = <<>> THEN unique
  ELSE IF ps[1] \in seen THEN UniqueExact(Tail(ps), seen, unique)
  ELSE UniqueExact(Tail(ps), seen \cup {ps[1]}, Append(unique, ps[1]))

\* unique by p.strip().lower(), first seen kept (utils.py:362-368)
RECURSIVE Unique(_, _, _)
Unique(ps, seen, unique) ==
  IF ps = <<>> THEN unique
  ELSE LET k == Lower(Strip(ps[1])) IN
       IF k \in seen THEN Unique(Tail(ps), seen, unique)
       ELSE Unique(Tail(ps), seen \cup {k}, Append(unique, ps[1]))

Relevant(p) == ~HasWord(p, BAD_SNIPPET_RE) /\ HasWord(p, FASHION_WORDS)

CleanEntry(rc) ==
  ResearchPerCompany(rc.company,
                     Prefix(Unique(SelectSeq(rc.insights, Relevant), {}, <<>>), INSIGHTS_MAX))

\* utils.py:358-370
clean_research(p) == [i \in DOMAIN p |-> CleanEntry(p[i])]

Dot == <<T(".", "l", 1)>>

PointA == <<T("x", "l", 33), T("retail", "l", 6)>> \o Dot

PointAUpper == <<T("x", "U", 33), T("retail", "U", 6)>> \o Dot

PointB == <<T("x", "l", 40), T("retail", "l", 6)>> \o Dot

PointPadded == <<T("sp", "l", 3), T("x", "l", 31), T("retail", "l", 6)>> \o Dot

PointShort == <<T("retail", "C", 6)>> \o Dot

PointLong == <<T("x", "l", 200), T("retail", "l", 6)>> \o Dot

PointCookie == <<T("x", "l", 33), T("cookie", "l", 6), T("sp", "l", 1), T("retail", "l", 6)>> \o Dot

PointBrand == <<T("x", "l", 40), T("sp", "l", 1), T("z", "l", 4)>> \o Dot

PointAPadded == <<T("sp", "l", 2)>> \o PointA \o <<T("nl", "l", 1)>>

InsightPool == {PointA, PointAUpper, PointAPadded, PointB, PointPadded, PointShort, PointLong,
                PointCookie, PointBrand}

TextA == PointA \o Sp \o PointAUpper

TextPadded == PointPadded \o Sp \o PointBrand

TextB == PointB \o Sp \o PointShort \o Sp \o PointLong \o Sp \o PointCookie

\* dicts and objects, with and without a text
ResearchResultPool ==
  {Result(FALSE, UrlZara, <<>>, <<>>), Result(TRUE, UrlZara, <<>>, <<>>),
   Result(FALSE, UrlZara, <<>>, TextA), Result(TRUE, UrlZara, <<>>, TextPadded),
   Result(FALSE, UrlZara, <<>>, TextB)}

(***************************************************************************)
(* run_research (pipeline.py:77-103)                                       *)
(***************************************************************************)
\* an agent answer lists up to one insight more than the cap: every list of
\* up to INSIGHTS_MAX - 1 insights, alone or after two others
ResearchEntryPool ==
  {ResearchPerCompany(Zara, ins) : ins \in SeqUpTo(InsightPool, INSIGHTS_MAX - 1)}
    \cup {ResearchPerCompany(Zara, <<PointB, PointLong>> \o ins) :
             ins \in SeqUpTo(InsightPool, INSIGHTS_MAX - 1)}
    \cup {ResearchPerCompany(RetailCo, <<p>>) : p \in InsightPool}

ResearchReplies ==
  {Odd(sh) : sh \in Shapes}
    \cup {Listed(<<>>), Listed(<<Junk(ResearchPerCompany(<<>>, <<>>))>>)}
    \cup {Listed(<<Item(e)>>) : e \in ResearchEntryPool}
    \cup {Listed(<<Item(ResearchPerCompany(Zara, <<p, q>>)), Item(ResearchPerCompany(RetailCo, <<q>>))>>) :
            p \in InsightPool, q \in InsightPool}

ResearchAnswers ==
  {Odd("nokey"), Listed(<<>>),
   Listed(<<Item(ResearchPerCompany(Zara, <<PointA, PointCookie, PointB>>))>>)}

ResearchHits ==
  {Raised, Found(<<>>), Found(<<Result(FALSE, UrlZara, <<>>, TextA)>>),
   Found(<<Result(TRUE, UrlZara, <<>>, <<>>)>>)}

InitResearch ==
  /\ stage = "research"
  /\ pc = "loop"
  /\ retries \in 0..MaxRetries
  /\ allow_fallbacks \in BOOLEAN
  /\ num_companies = 0
  /\ exa \in BOOLEAN
  /\ companies \in {<<>>, TwoCompanies}
  /\ contacts = <<>> /\ research = <<>> /\ emails = <<>>
  /\ sender = NoSender /\ style = ""
  /\ json_text = <<>> /\ default = <<>>
  /\ main = "" /\ qc_enabled = FALSE /\ exports = {}
  /\ Fresh

\* one pass of the loop, pipeline.py:86-97
ResearchAttempt ==
  /\ stage = "research" /\ pc = "loop"
  /\ calls' = calls + 1
  /\ \/ /\ Raise("agent.run", "Exception")
        /\ UNCHANGED <<attempt, payload>>
     \/ \E data \in Drawn(ResearchReplies, ResearchAnswers) :
          LET v == Validate(data) IN
          IF v.exc /= ""
          THEN Raise("payload", v.exc) /\ UNCHANGED <<attempt, payload>>
          ELSE EndOfPass(v.recs) /\ UNCHANGED err
  /\ UNCHANGED <<args, raw, fallback, walk>>

\* pipeline.py:98-100 and utils.py:311-315: the strategy is entered
ResearchFallback ==
  /\ stage = "research" /\ pc = "after"
  /\ payload = <<>> /\ allow_fallbacks
  /\ fallback' = TRUE
  /\ IF exa /\ companies /= <<>>
     THEN /\ pc' = "search"
          /\ ci' = 1 /\ qi' = 1 /\ acc' = <<>> /\ out' = <<>> /\ lead' = <<>>
          /\ UNCHANGED num_results
          /\ UNCHANGED payload
     ELSE /\ pc' = "post"
          /\ payload' = <<>>
          /\ UNCHANGED walk
  /\ UNCHANGED <<args, attempt, raw, calls, err>>

\* utils.py:320-333: one query for one company
ResearchSearch ==
  /\ stage = "research" /\ pc = "search"
  /\ \E found \in Drawn(SearchOutcomes(ResearchResultPool), ResearchHits) :
       LET c == companies[ci]
           brand == _brand_from_domain(_domain(c.website))
           insights == ResearchQuery(found, brand, acc)
       IN IF qi < QUERIES
          THEN /\ qi' = qi + 1 /\ acc' = insights
               /\ UNCHANGED <<pc, payload, ci, out>>
          ELSE NextCompanyOrReturn(
                 Append(out, ResearchPerCompany(c.name, Prefix(insights, INSIGHTS_MAX))))
  /\ UNCHANGED lead
  /\ UNCHANGED <<args, attempt, raw, calls, fallback, err, num_results>>

\* pipeline.py:102-103
ResearchReturn ==
  /\ stage = "research"
  /\ \/ pc = "post"
     \/ pc = "after" /\ ~(payload = <<>> /\ allow_fallbacks)
  /\ raw' = payload
  /\ payload' = IF payload /= <<>> THEN clean_research(payload) ELSE payload
  /\ pc' = "done"
  /\ UNCHANGED <<args, attempt, calls, fallback, err, walk>>

NextResearch == ResearchAttempt \/ ResearchFallback \/ ResearchSearch \/ ResearchReturn

SpecResearch == InitResearch /\ [][NextResearch]_vars

(***************************************************************************)
(* Template emails (utils.generate_template_emails)                        *)
(***************************************************************************)
\* the strings ss one after the other, halving the list
RECURSIVE Flat(_)
Flat(ss) ==
  IF ss = <<>> THEN <<>>
  ELSE IF Len(ss) = 1 THEN ss[1]
  ELSE LET h == Len(ss) \div 2 IN
       Flat(SubSeq(ss, 1, h)) \o Flat(SubSeq(ss, h + 1, Len(ss)))

\* the concatenation of the strings ss
CatAll(ss) == Canon(Flat(ss))

\* sep.join(ss)
RECURSIVE Join(_, _)
Join(sep, ss) ==
  IF ss = <<>> THEN <<>>
  ELSE IF Len(ss) = 1 THEN ss[1]
  ELSE CatAll(<<ss[1], sep, Join(sep, Tail(ss))>>)

Nl(n) == <<T("nl", "l", n)>>

Dash == <<T("-", "l", 1)>>

\* a stretch of prose of n characters
Prose(n) == <<T("x", "l", n)>>

\* schemas.EmailItem
EmailItem(company, contact, subject, body) ==
  [company |-> company, contact |-> contact, subject |-> subject, body |-> body]

\* style_hint (utils.py:379-384), by its length
StyleHint(st) ==
  CASE st = "Professional" -> Prose(34)
    [] st = "Casual" -> Prose(29)
    [] st = "Cold" -> Prose(25)
    [] st = "Consultative" -> Prose(37)
    [] OTHER -> Prose(17)

\* the placeholder named after its role
TEAM_CONTACT_NAMED_TEAM == Contact(<<T("team", "C", 4)>>, "Team", <<>>, FALSE, <<>>)

\* Contact(name="Equipe", role="Team") (utils.py:388)
TEAM_CONTACT == Contact(<<T("equipe", "C", 6)>>, "Team", <<>>, FALSE, <<>>)

\* {e.company: e.<field> for e in entries}.get(name): the last entry of that
\* name, <<>> when there is none
RECURSIVE LookUp(_, _, _)
LookUp(entries, name, field) ==
  IF entries = <<>> THEN <<>>
  ELSE LET e == entries[Len(entries)] IN
       IF e.company = name THEN e[field]
       ELSE LookUp(SubSeq(entries, 1, Len(entries) - 1), name, field)

\* utils.py:391
TemplateSubject(brand) == CatAll(<<brand, Sp, Dash, Sp, Prose(45)>>)

\* utils.py:392-393
InsightsText(ins) ==
  IF ins /= <<>>
  THEN CatAll(<<Nl(1), Dash, Sp, Join(CatAll(<<Nl(1), Dash, Sp>>), Prefix(ins, 2))>>)
  ELSE CatAll(<<Nl(1), Dash, Sp, Prose(30)>>)

\* the body without its signature line
TemplateBodyUnsigned(ct, brand, ins, snd, st) ==
  CatAll(<<Prose(7), Sp, ct.name, <<T(",", "l", 1)>>, Nl(2),
           Prose(31), Sp, StyleHint(st), Sp, Prose(9), Sp, snd.company, Dot, Sp,
           Prose(60), Sp, <<T("retail", "l", 6)>>, Sp, Prose(180), Nl(2),
           Prose(36), Sp, brand, Sp, <<T(":", "l", 1)>>, InsightsText(ins), Nl(2),
           Prose(80), Nl(2),
           Prose(12)>>)

\* utils.py:394-402
TemplateBody(ct, brand, ins, snd, st) ==
  CatAll(<<Prose(7), Sp, ct.name, <<T(",", "l", 1)>>, Nl(2),
           Prose(31), Sp, StyleHint(st), Sp, Prose(9), Sp, snd.company, Dot, Sp,
           Prose(60), Sp, <<T("retail", "l", 6)>>, Sp, Prose(180), Nl(2),
           Prose(36), Sp, brand, Sp, <<T(":", "l", 1)>>, InsightsText(ins), Nl(2),
           Prose(80), Nl(2),
           Prose(12), Nl(1), snd.name, Sp, Dash, Sp, snd.company>>)

TemplateFor(comp, cts, rs, snd, st) ==
  LET found == LookUp(cts, comp.name, "contacts")
      targets == IF found /= <<>> THEN found ELSE <<TEAM_CONTACT>>
      brand == _brand_from_domain(_domain(comp.website))
      ins == SelectSeq(LookUp(rs, comp.name, "insights"), LAMBDA q : ~HasWord(q, BAD_SNIPPET_RE))
  IN [i \in DOMAIN targets |->
        EmailItem(comp.name, targets[i].name, TemplateSubject(brand),
                  TemplateBody(targets[i], brand, ins, snd, st))]

RECURSIVE TemplateLoop(_, _, _, _, _)
TemplateLoop(comps, cts, rs, snd, st) ==
  IF comps = <<>> THEN <<>>
  ELSE TemplateFor(comps[1], cts, rs, snd, st) \o TemplateLoop(Tail(comps), cts, rs, snd, st)

\* utils.py:377-409
generate_template_emails(comps, cts, rs, snd, st) == TemplateLoop(comps, cts, rs, snd, st)

(***************************************************************************)
(* run_email_writer (pipeline.py:106-145)                                  *)
(***************************************************************************)
\* an email of an agent answer: the four fields, the keys among them that
\* the record lacks, and the value under "followups" (a list when fu_list)
Draft(company, contact, subject, body, missing, followups, fu_list) ==
  [company |-> company, contact |-> contact, subject |-> subject, body |-> body,
   missing |-> missing, followups |-> followups, fu_list |-> fu_list]

\* "Follow-ups:" (pipeline.py:131)
FOLLOWUPS_LABEL == <<T("followups", "C", 11)>>

FollowupLine(t) == CatAll(<<Dash, Sp, t>>)

\* the block with its lines in the opposite order
FollowupsBlockReversed(fus) ==
  CatAll(<<Nl(2), <<T("-", "l", 3)>>, Nl(1), FOLLOWUPS_LABEL, Nl(1),
           Join(Nl(1), [i \in DOMAIN fus |-> FollowupLine(fus[Len(fus) + 1 - i])])>>)

\* "\n\n---\nFollow-ups:\n" + "\n".join(f"- {t}" for t in fus) (pipeline.py:131)
FollowupsBlock(fus) ==
  CatAll(<<Nl(2), <<T("-", "l", 3)>>, Nl(1), FOLLOWUPS_LABEL, Nl(1),
           Join(Nl(1), [i \in DOMAIN fus |-> FollowupLine(fus[i])])>>)

\* pipeline.py:128-131
MergeFollowups(e) ==
  IF e.followups /= <<>> /\ e.fu_list
  THEN [e EXCEPT !.body = Cat(IF "body" \in e.missing THEN <<>> ELSE e.body,
                              FollowupsBlock(e.followups)),
                 !.missing = e.missing \ {"body"}]
  ELSE e

\* pipeline.py:134-135
SetDefaults(e) ==
  [e EXCEPT !.company = IF "company" \in e.missing THEN <<>> ELSE e.company,
            !.contact = IF "contact" \in e.missing THEN <<>> ELSE e.contact,
            !.missing = e.missing \ {"company", "contact"}]

Stored(e) == EmailItem(e.company, e.contact, e.subject, e.body)

\* pipeline.py:126-138: the records, <<>> after a ValidationError, or the
\* exception that escapes
ValidateEmails(data) ==
  CASE data.shape = "nonmap" -> [exc |-> "AttributeError", recs |-> <<>>]
    [] data.shape \in {"null", "scalar"} -> [exc |-> "TypeError", recs |-> <<>>]
    [] data.shape = "nokey" -> [exc |-> "", recs |-> <<>>]
    [] OTHER ->
         IF \E i \in DOMAIN data.items : ~data.items[i].valid
         THEN [exc |-> "AttributeError", recs |-> <<>>]
         ELSE LET es == [i \in DOMAIN data.items |-> SetDefaults(MergeFollowups(data.items[i].v))]
              IN IF \A i \in DOMAIN es : es[i].missing = {}
                 THEN [exc |-> "", recs |-> [i \in DOMAIN es |-> Stored(es[i])]]
                 ELSE [exc |-> "", recs |-> <<>>]

Subject == Prose(12)

Body == CatAll(<<Prose(20), Sp, Prose(30)>>)

FollowA == Prose(5)

FollowB == CatAll(<<Prose(3), Sp, Prose(3)>>)

DraftPool ==
  {Draft(Zara, AnnLee, Subject, Body, {}, <<>>, TRUE),
   Draft(Zara, AnnLee, Subject, Body, {}, <<FollowA, FollowB>>, TRUE),
   Draft(Zara, AnnLee, Subject, Body, {}, <<FollowA>>, FALSE),
   Draft(Zara, AnnLee, <<>>, Body, {"subject"}, <<>>, TRUE),
   Draft(RetailCo, AnnLee, Subject, <<>>, {"body"}, <<FollowB>>, TRUE)}

\* longest email list in an agent answer and in the argument of the quality check
MaxEmails == 2

EmailReplies ==
  {Odd(sh) : sh \in Shapes}
    \cup {Listed(it) : it \in SeqUpTo({Item(e) : e \in DraftPool}
                                        \cup {Junk(Draft(<<>>, <<>>, <<>>, <<>>, {}, <<>>, TRUE))},
                                      MaxEmails)}

Livetrend == <<T("livetrend", "C", 9)>>

ContactInputs ==
  {<<>>,
   <<ContactsPerCompany(Zara, <<Contact(AnnLee, "Founder", AnnAtZara, TRUE, <<>>)>>)>>,
   <<ContactsPerCompany(Zara, <<Contact(AnnLee, "Founder", AnnAtZara, TRUE, <<>>),
                                Contact(RetailCo, "GTM Lead", <<>>, FALSE, UrlZara)>>),
     ContactsPerCompany(RetailCo, <<>>)>>,
   <<ContactsPerCompany(Zara, <<Contact(AnnLee, "Founder", AnnAtZara, TRUE, <<>>)>>),
     ContactsPerCompany(Zara, <<Contact(RetailCo, "GTM Lead", <<>>, FALSE, UrlZara)>>)>>}

ResearchInputs ==
  {<<>>, <<ResearchPerCompany(Zara, <<PointA, PointCookie, PointB>>)>>}

SamRay == <<T("x", "U", 1), T("x", "l", 2), T("sp", "l", 1), T("x", "U", 1), T("x", "l", 4)>>

SenderInputs == {[name |-> <<>>, company |-> Livetrend], [name |-> SamRay, company |-> Livetrend]}

EmailAnswers ==
  {Odd("null"), Listed(<<>>),
   Listed(<<Item(Draft(Zara, AnnLee, Subject, Body, {}, <<FollowA>>, TRUE))>>),
   Listed(<<Item(Draft(Zara, AnnLee, Subject, Body, {}, <<>>, TRUE)),
            Item(Draft(RetailCo, AnnLee, Subject, Body, {}, <<>>, TRUE))>>)}

InitEmail ==
  /\ stage = "email"
  /\ pc = "loop"
  /\ retries \in 0..MaxRetries
  /\ allow_fallbacks \in BOOLEAN
  /\ num_companies = 0
  /\ exa = FALSE
  /\ companies \in CompanyInputs
  /\ contacts \in ContactInputs
  /\ research \in ResearchInputs
  /\ emails = <<>>
  /\ sender \in SenderInputs
  /\ style \in {"Professional", "Casual"}
  /\ json_text = <<>> /\ default = <<>>
  /\ main = "" /\ qc_enabled = FALSE /\ exports = {}
  /\ Fresh

\* one pass of the loop, pipeline.py:121-141
EmailAttempt ==
  /\ stage = "email" /\ pc = "loop"
  /\ calls' = calls + 1
  /\ \/ /\ Raise("agent.run", "Exception")
        /\ UNCHANGED <<attempt, payload, raw>>
     \/ \E data \in Drawn(EmailReplies, EmailAnswers) :
          LET v == ValidateEmails(data) IN
          IF v.exc /= ""
          THEN Raise("payload", v.exc) /\ UNCHANGED <<attempt, payload, raw>>
          ELSE /\ EndOfPass(v.recs)
               /\ raw' = IF v.recs = <<>> THEN <<>>
                         ELSE [i \in DOMAIN data.items |-> data.items[i].v]
               /\ UNCHANGED err
  /\ UNCHANGED <<args, fallback, walk>>

\* pipeline.py:142-144
EmailFallback ==
  /\ stage = "email" /\ pc = "after"
  /\ payload = <<>> /\ allow_fallbacks
  /\ fallback' = TRUE
  /\ payload' = generate_template_emails(companies, contacts, research, sender, style)
  /\ pc' = "post"
  /\ UNCHANGED <<args, attempt, raw, calls, err, walk>>

\* pipeline.py:145
EmailReturn ==
  /\ stage = "email"
  /\ \/ pc = "post"
     \/ pc = "after" /\ ~(payload = <<>> /\ allow_fallbacks)
  /\ pc' = "done"
  /\ UNCHANGED <<args, attempt, payload, raw, calls, fallback, err, walk>>

NextEmail == EmailAttempt \/ EmailFallback \/ EmailReturn

SpecEmail == InitEmail /\ [][NextEmail]_vars

(***************************************************************************)
(* run_quality_check (pipeline.py:148-160)                                 *)
(***************************************************************************)
QcItem(ok) == [ok |-> ok]

QcReplies ==
  {Odd(sh) : sh \in Shapes}
    \cup {Listed(it) : it \in SeqUpTo({Item(QcItem(TRUE)), Item(QcItem(FALSE)), Junk(QcItem(FALSE))},
                                      MaxEmails + 1)}

EmailInputs ==
  SeqUpTo({EmailItem(Zara, AnnLee, Subject, Body), EmailItem(RetailCo, <<>>, Subject, Body)},
          MaxEmails)

\* data.get("qc", []) and `items if isinstance(items, list) else []`
\* (pipeline.py:159-160)
QcItems(data) ==
  CASE data.shape = "nonmap" -> [exc |-> "AttributeError", recs |-> <<>>]
    [] data.shape = "list" -> [exc |-> "", recs |-> data.items]
    [] OTHER -> [exc |-> "", recs |-> <<>>]

QcAnswers ==
  {Odd("nonmap"), Listed(<<>>), Listed(<<Item(QcItem(TRUE))>>),
   Listed(<<Item(QcItem(TRUE)), Item(QcItem(FALSE))>>)}

InitQuality ==
  /\ stage = "qc"
  /\ pc = "loop"
  /\ retries = 0
  /\ allow_fallbacks = FALSE
  /\ num_companies = 0
  /\ exa = FALSE
  /\ companies = <<>> /\ contacts = <<>> /\ research = <<>>
  /\ emails \in EmailInputs
  /\ sender = NoSender /\ style = ""
  /\ json_text = <<>> /\ default = <<>>
  /\ main = "" /\ qc_enabled = FALSE /\ exports = {}
  /\ Fresh

\* pipeline.py:149-150
QualitySkip ==
  /\ stage = "qc" /\ pc = "loop"
  /\ emails = <<>>
  /\ payload' = <<>>
  /\ pc' = "done"
  /\ UNCHANGED <<args, attempt, raw, calls, fallback, err, walk>>

\* pipeline.py:151-160
QualityCheck ==
  /\ stage = "qc" /\ pc = "loop"
  /\ emails /= <<>>
  /\ calls' = calls + 1
  /\ \/ /\ Raise("agent.run", "Exception")
        /\ UNCHANGED payload
     \/ \E data \in Drawn(QcReplies, QcAnswers) :
          LET v == QcItems(data) IN
          IF v.exc /= ""
          THEN Raise("payload", v.exc) /\ UNCHANGED payload
          ELSE payload' = v.recs /\ pc' = "done" /\ UNCHANGED err
  /\ UNCHANGED <<args, attempt, raw, fallback, walk>>

NextQuality == QualitySkip \/ QualityCheck

SpecQuality == InitQuality /\ [][NextQuality]_vars

(***************************************************************************)
(* Structured-result parser (utils.parse_json_safe)                        *)
(*                                                                         *)
(* A text is a sequence of lexical tokens: the brackets, the comma, "k:"   *)
(* (a key with its colon), "1" (a scalar literal), " " (whitespace) and    *)
(* "p" (a word of prose).  A parsed value is written as the tokens of its  *)
(* literal without whitespace, an object keeping the last member of a key. *)
(***************************************************************************)
JsonTokens == {"{", "}", "[", "]", ",", "k:", "1", " ", "p"}

\* longest text
MaxText == 5

NoParse == [ok |-> FALSE, val |-> <<>>, rest |-> <<>>]

Parsed(val, rest) == [ok |-> TRUE, val |-> val, rest |-> rest]

RECURSIVE JsonValue(_), JsonElements(_, _), JsonMembers(_)
\* a value at the head of s
JsonValue(s) ==
  IF s = <<>> THEN NoParse
  ELSE CASE s[1] = "1" -> Parsed(<<"1">>, Tail(s))
         [] s[1] = "[" -> IF Len(s) >= 2 /\ s[2] = "]"
                          THEN Parsed(<<"[", "]">>, SubSeq(s, 3, Len(s)))
                          ELSE JsonElements(Tail(s), <<"[">>)
         [] s[1] = "{" -> IF Len(s) >= 2 /\ s[2] = "}"
                          THEN Parsed(<<"{", "}">>, SubSeq(s, 3, Len(s)))
                          ELSE JsonMembers(Tail(s))
         [] OTHER -> NoParse

\* the elements of a list, after "[" or a comma
JsonElements(s, seen) ==
  LET v == JsonValue(s) IN
  IF ~v.ok \/ v.rest = <<>> THEN NoParse
  ELSE IF v.rest[1] = "]" THEN Parsed(seen \o v.val \o <<"]">>, Tail(v.rest))
  ELSE IF v.rest[1] = "," THEN JsonElements(Tail(v.rest), seen \o v.val \o <<",">>)
  ELSE NoParse

\* the members of an object, after "{" or a comma
JsonMembers(s) ==
  IF s = <<>> \/ s[1] /= "k:" THEN NoParse
  ELSE LET v == JsonValue(Tail(s)) IN
       IF ~v.ok \/ v.rest = <<>> THEN NoParse
       ELSE IF v.rest[1] = "}" THEN Parsed(<<"{", "k:">> \o v.val \o <<"}">>, Tail(v.rest))
       ELSE IF v.rest[1] = "," THEN JsonMembers(Tail(v.rest))
       ELSE NoParse

\* json.loads(s): ok is FALSE when it raises
json_loads(s) ==
  LET v == JsonValue(SelectSeq(s, LAMBDA t : t /= " ")) IN
  IF v.ok /\ v.rest = <<>> THEN v ELSE NoParse

\* index of the last token c of s, 0 when there is none
RECURSIVE LastIndex(_, _, _)
LastIndex(s, c, i) == IF i = 0 THEN 0 ELSE IF s[i] = c THEN i ELSE LastIndex(s, c, i - 1)

Closer(c) == IF c = "{" THEN "}" ELSE "]"

\* re.search(r"(\{[\s\S]*\}|\[[\s\S]*\])", s): the leftmost opening bracket
\* that has its closing bracket somewhere after it, up to the last such
\* closing bracket; <<>> when there is no match
RECURSIVE Candidate(_, _)
Candidate(s, i) ==
  IF i > Len(s) THEN <<>>
  ELSE IF s[i] \in {"{", "["} /\ LastIndex(s, Closer(s[i]), Len(s)) > i
  THEN SubSeq(s, i, LastIndex(s, Closer(s[i]), Len(s)))
  ELSE Candidate(s, i + 1)

\* parse_json_safe with the second json.loads outside try/except
parse_json_unguarded(txt, dflt) ==
  IF txt = <<>> THEN [exc |-> "", val |-> dflt]
  ELSE IF json_loads(txt).ok THEN [exc |-> "", val |-> json_loads(txt).val]
  ELSE LET candidate == Candidate(txt, 1) IN
       IF candidate /= <<>>
       THEN IF json_loads(candidate).ok
            THEN [exc |-> "", val |-> json_loads(candidate).val]
            ELSE [exc |-> "JSONDecodeError", val |-> <<>>]
       ELSE [exc |-> "", val |-> dflt]

\* utils.py:69-83: the value returned, or the exception that escapes
parse_json_safe(txt, dflt) ==
  IF txt = <<>> THEN [exc |-> "", val |-> dflt]
  ELSE IF json_loads(txt).ok THEN [exc |-> "", val |-> json_loads(txt).val]
  ELSE LET candidate == Candidate(txt, 1) IN
       IF candidate /= <<>>
       THEN IF json_loads(candidate).ok
            THEN [exc |-> "", val |-> json_loads(candidate).val]
            ELSE [exc |-> "", val |-> dflt]
       ELSE [exc |-> "", val |-> dflt]

\* {"companies": []} and the like (pipeline.py:32, 125, 158)
EmptyPayload == <<"{", "k:", "[", "]", "}">>

Defaults == {EmptyPayload, <<"d">>}

InitParse ==
  /\ stage = "parse"
  /\ pc = "call"
  /\ retries = 0
  /\ allow_fallbacks = FALSE
  /\ num_companies = 0
  /\ exa = FALSE
  /\ companies = <<>> /\ contacts = <<>> /\ research = <<>> /\ emails = <<>>
  /\ sender = NoSender /\ style = ""
  /\ main = "" /\ qc_enabled = FALSE /\ exports = {}
  /\ json_text \in SeqUpTo(JsonTokens, MaxText)
  /\ default \in Defaults
  /\ Fresh

\* utils.py:69-83
ParseJsonSafe ==
  /\ stage = "parse" /\ pc = "call"
  /\ LET res == parse_json_safe(json_text, default) IN
     IF res.exc /= ""
     THEN Raise("parse_json_safe", res.exc) /\ UNCHANGED payload
     ELSE payload' = res.val /\ pc' = "done" /\ UNCHANGED err
  /\ UNCHANGED <<args, attempt, raw, calls, fallback, walk>>

SpecParse == InitParse /\ [][ParseJsonSafe]_vars

(***************************************************************************)
(* normalize_companies applied to its own result (utils.py:341-355)        *)
(***************************************************************************)
\* the companies of CompanyPool, and one whose why_fit has its only keyword
\* beyond the first WHY_FIT_MAX characters
NormalizePool == CompanyPool \cup {Company(Zara, UrlZara, WhyLate)}

InitNormalize ==
  /\ stage = "normalize_companies"
  /\ pc = "given"
  /\ retries = 0
  /\ allow_fallbacks = FALSE
  /\ num_companies = 0
  /\ exa = FALSE
  /\ companies \in SeqUpTo(NormalizePool, MaxCompanies)
  /\ contacts = <<>> /\ research = <<>> /\ emails = <<>>
  /\ sender = NoSender /\ style = ""
  /\ json_text = <<>> /\ default = <<>>
  /\ main = "" /\ qc_enabled = FALSE /\ exports = {}
  /\ Fresh

\* p1 = normalize_companies(p, exclude_domains)
NormalizeOnce ==
  /\ stage = "normalize_companies" /\ pc = "given"
  /\ payload' = normalize_companies(companies, EXCLUDE_DOMAINS)
  /\ pc' = "once"
  /\ UNCHANGED <<args, attempt, raw, calls, fallback, err, walk>>

\* p2 = normalize_companies(p1, exclude_domains); raw keeps p1
NormalizeAgain ==
  /\ stage = "normalize_companies" /\ pc = "once"
  /\ raw' = payload
  /\ payload' = normalize_companies(payload, EXCLUDE_DOMAINS)
  /\ pc' = "twice"
  /\ UNCHANGED <<args, attempt, calls, fallback, err, walk>>

SpecNormalize == InitNormalize /\ [][NormalizeOnce \/ NormalizeAgain]_vars

(***************************************************************************)
(* normalize_companies and clean_research as calls on objects              *)
(* (utils.py:341-370): the payload given is a list object of record        *)
(* objects; what the function constructs is allocated after them           *)
(***************************************************************************)
\* a record object (a Company, a ResearchPerCompany with its insights list)
RecObj(v) == [list |-> FALSE, v |-> v]

\* a list object: the ids of its elements
ListObj(ids) == [list |-> TRUE, v |-> ids]

\* the records that the list object id holds
Deref(h, id) == [i \in DOMAIN h.objs[id].v |-> h.objs[h.objs[id].v[i]].v]

\* a payload of the records recs given as argument
Given(recs) ==
  [objs |-> [i \in DOMAIN recs |-> RecObj(recs[i])] \o <<ListObj([i \in DOMAIN recs |-> i])>>,
   arg |-> Len(recs) + 1,
   res |-> 0]

\* the records edited where they are and the argument's own list returned
ConstructedInPlace(h, recs) ==
  [objs |-> [id \in DOMAIN h.objs |->
               IF id = h.arg THEN ListObj([i \in DOMAIN recs |-> i])
               ELSE IF id \in DOMAIN recs THEN RecObj(recs[id])
               ELSE h.objs[id]],
   arg |-> h.arg,
   res |-> h.arg]

\* `clean.append(Company(...))`, `CompaniesPayload(companies=clean)` (utils.py:342-355)
\* and `out.append(ResearchPerCompany(...))`, `ResearchPayload(companies=out)`
\* (utils.py:359-370): new record objects in a new list; nothing is assigned
\* to the argument or to a record of it
Constructed(h, recs) ==
  LET n == Len(h.objs) IN
  [objs |-> h.objs \o [i \in DOMAIN recs |-> RecObj(recs[i])]
                   \o <<ListObj([i \in DOMAIN recs |-> n + i])>>,
   arg |-> h.arg,
   res |-> n + Len(recs) + 1]

InitFrame ==
  /\ stage \in {"normalize_companies", "clean_research"}
  /\ pc = "call"
  /\ retries = 0
  /\ allow_fallbacks = FALSE
  /\ num_companies = 0
  /\ exa = FALSE
  /\ companies = <<>> /\ contacts = <<>> /\ research = <<>> /\ emails = <<>>
  /\ sender = NoSender /\ style = ""
  /\ json_text = <<>> /\ default = <<>>
  /\ main = "" /\ qc_enabled = FALSE /\ exports = {}
  /\ heap \in IF stage = "normalize_companies"
              THEN {Given(recs) : recs \in SeqUpTo(CompanyPool, MaxCompanies)}
              ELSE {Given(recs) : recs \in {<<>>} \cup {<<e>> : e \in ResearchEntryPool}}
  /\ attempt = 0 /\ payload = <<>> /\ raw = <<>> /\ calls = 0 /\ fallback = FALSE
  /\ err = NoErr
  /\ ci = 0 /\ qi = 0 /\ acc = <<>> /\ out = <<>> /\ lead = <<>>
  /\ num_results = 0

\* utils.py:341-355
NormalizeCompaniesCall ==
  /\ stage = "normalize_companies" /\ pc = "call"
  /\ heap' = Constructed(heap, normalize_companies(Deref(heap, heap.arg), EXCLUDE_DOMAINS))
  /\ pc' = "done"
  /\ UNCHANGED <<stage, retries, allow_fallbacks, num_companies, exa, companies, contacts,
                 research, emails, sender, style, json_text, default, main, qc_enabled,
                 exports, attempt, payload, raw, calls, fallback, err, walk>>

\* utils.py:358-370
CleanResearchCall ==
  /\ stage = "clean_research" /\ pc = "call"
  /\ heap' = Constructed(heap, clean_research(Deref(heap, heap.arg)))
  /\ pc' = "done"
  /\ UNCHANGED <<stage, retries, allow_fallbacks, num_companies, exa, companies, contacts,
                 research, emails, sender, style, json_text, default, main, qc_enabled,
                 exports, attempt, payload, raw, calls, fallback, err, walk>>

NextFrame == NormalizeCompaniesCall \/ CleanResearchCall

SpecFrame == InitFrame /\ [][NextFrame]_vars

(***************************************************************************)
(* main() (ai_email_gtm_outreach_agent.py:112-158): the five stages in     *)
(* order, each given the payloads of the stages before it                  *)
(***************************************************************************)
InitMain ==
  /\ main = "run"
  /\ qc_enabled \in BOOLEAN
  /\ stage = "company"
  /\ pc = "loop"
  /\ retries \in 0..MaxRetries
  /\ allow_fallbacks \in BOOLEAN
  /\ num_companies \in 1..MaxLimit
  /\ exa \in BOOLEAN
  /\ companies = <<>> /\ contacts = <<>> /\ research = <<>> /\ emails = <<>>
  /\ sender \in SenderInputs
  /\ style = "Professional"
  /\ json_text = <<>> /\ default = <<>>
  /\ exports = {}
  /\ Fresh

\* save_exports(out_dir, prefix, ...) (utils.py:117-124): one more file, none removed
save_exports(prefix) == exports' = exports \cup {prefix}

\* the call of the next stage function: its locals are fresh
Call(next) ==
  /\ stage' = next
  /\ pc' = "loop"
  /\ attempt' = 0 /\ payload' = <<>> /\ raw' = <<>> /\ calls' = 0 /\ fallback' = FALSE
  /\ UNCHANGED <<main, qc_enabled, retries, allow_fallbacks, num_companies, exa, sender,
                 style, json_text, default, err, walk, heap>>

\* lines 114-121: run_company_finder returned, run_contact_finder is called
MainContacts ==
  /\ main = "run" /\ stage = "company" /\ pc = "done"
  /\ companies' = payload
  /\ save_exports("companies")
  /\ Call("contact")
  /\ UNCHANGED <<contacts, research, emails>>

\* lines 121-128
MainResearch ==
  /\ main = "run" /\ stage = "contact" /\ pc = "done"
  /\ contacts' = payload
  /\ save_exports("contacts")
  /\ Call("research")
  /\ UNCHANGED <<companies, research, emails>>

\* lines 128-136
MainEmails ==
  /\ main = "run" /\ stage = "research" /\ pc = "done"
  /\ research' = payload
  /\ save_exports("research")
  /\ Call("email")
  /\ UNCHANGED <<companies, contacts, emails>>

\* the quality check entered whatever the setting
MainQualityUngated ==
  /\ main = "run" /\ stage = "email" /\ pc = "done"
  /\ emails' = payload
  /\ save_exports("emails")
  /\ IF payload /= <<>>
     THEN Call("qc")
     ELSE /\ main' = "ok"
          /\ UNCHANGED <<stage, pc, attempt, payload, raw, calls, fallback, qc_enabled,
                         retries, allow_fallbacks, num_companies, exa, sender, style,
                         json_text, default, err, walk, heap>>
  /\ UNCHANGED <<companies, contacts, research>>

\* lines 136-155: `if qc_agent and emails.emails`, else the run is over
MainQuality ==
  /\ main = "run" /\ stage = "email" /\ pc = "done"
  /\ emails' = payload
  /\ save_exports("emails")
  /\ IF qc_enabled /\ payload /= <<>>
     THEN Call("qc")
     ELSE /\ main' = "ok"
          /\ UNCHANGED <<stage, pc, attempt, payload, raw, calls, fallback, qc_enabled,
                         retries, allow_fallbacks, num_companies, exa, sender, style,
                         json_text, default, err, walk, heap>>
  /\ UNCHANGED <<companies, contacts, research>>

\* lines 147-155
MainDone ==
  /\ main = "run" /\ stage = "qc" /\ pc = "done"
  /\ main' = "ok"
  /\ save_exports("qc")
  /\ UNCHANGED <<stage, qc_enabled, retries, allow_fallbacks, num_companies, exa, companies,
                 contacts, research, emails, sender, style, json_text, default,
                 pc, attempt, payload, raw, calls, fallback, err, walk, heap>>

\* the failure of the run undoing its exports
MainFailedRollback ==
  /\ main = "run" /\ pc = "raised"
  /\ main' = "failed"
  /\ exports' = {}
  /\ UNCHANGED <<stage, qc_enabled, retries, allow_fallbacks, num_companies, exa, companies,
                 contacts, research, emails, sender, style, json_text, default,
                 pc, attempt, payload, raw, calls, fallback, err, walk, heap>>

\* an exception of a stage starting that stage again
MainFailedRestart ==
  /\ main = "run" /\ pc = "raised"
  /\ pc' = "loop"
  /\ attempt' = 0 /\ payload' = <<>> /\ raw' = <<>> /\ calls' = 0 /\ fallback' = FALSE
  /\ err' = NoErr
  /\ ci' = 0 /\ qi' = 0 /\ acc' = <<>> /\ out' = <<>> /\ lead' = <<>> /\ num_results' = 0
  /\ UNCHANGED args

\* lines 156-158: an exception of a stage ends the run
MainFailed ==
  /\ main = "run" /\ pc = "raised"
  /\ main' = "failed"
  /\ UNCHANGED exports
  /\ UNCHANGED <<stage, qc_enabled, retries, allow_fallbacks, num_companies, exa, companies,
                 contacts, research, emails, sender, style, json_text, default,
                 pc, attempt, payload, raw, calls, fallback, err, walk, heap>>

NextMain ==
  \/ MainContacts \/ MainResearch \/ MainEmails \/ MainQuality \/ MainDone \/ MainFailed
  \/ NextCompany \/ NextContact \/ NextResearch \/ NextEmail \/ QualityCheck

SpecMain == InitMain /\ [][NextMain]_vars

\* the steps of NextMain but the three that apply normalize_companies,
\* clean_research and generate_template_emails
MainSteps ==
  \/ MainContacts \/ MainResearch \/ MainEmails \/ MainQuality \/ MainDone \/ MainFailed
  \/ CompanyAttempt \/ CompanyFallback
  \/ NextContact
  \/ ResearchAttempt \/ ResearchFallback \/ ResearchSearch
  \/ EmailAttempt \/ EmailReturn
  \/ QualityCheck

\* the states in which CompanyReturn, ResearchReturn or EmailFallback can be
\* taken: the guard of the action, what follows it assigning every variable
ReturnEnabled(s) ==
  stage = s /\ (pc = "post" \/ (pc = "after" /\ ~(payload = <<>> /\ allow_fallbacks)))

EmailFallbackEnabled == stage = "email" /\ pc = "after" /\ payload = <<>> /\ allow_fallbacks

\* main() is one sequential thread and every agent or search call returns or
\* raises: a run that can take a step takes one.  The weak fairness of the
\* three remaining steps is written out, with their guard for ENABLED.
SpecMainFair ==
  /\ SpecMain
  /\ WF_vars(MainSteps)
  /\ ([]<>(~ReturnEnabled("company")) \/ []<><<CompanyReturn>>_vars)
  /\ ([]<>(~ReturnEnabled("research")) \/ []<><<ResearchReturn>>_vars)
  /\ ([]<>(~EmailFallbackEnabled) \/ []<><<EmailFallback>>_vars)

\* the quality check called alone (with any list of emails) or by main()
InitQualityRuns == InitQuality \/ InitMain

NextQualityRuns == NextMain \/ QualitySkip

SpecQualityRuns == InitQualityRuns /\ [][NextQualityRuns]_vars

(***************************************************************************)
(* Any stage                                                               *)
(***************************************************************************)
Init == InitCompany \/ InitContact \/ InitResearch \/ InitEmail \/ InitQuality

Next ==
  \/ CompanyAttempt \/ CompanyFallback \/ CompanyReturn
  \/ ContactAttempt \/ ContactFallback \/ ContactSearch \/ ContactReturn
  \/ ResearchAttempt \/ ResearchFallback \/ ResearchSearch \/ ResearchReturn
  \/ EmailAttempt \/ EmailFallback \/ EmailReturn
  \/ QualitySkip \/ QualityCheck

Spec == Init /\ [][Next]_vars

(***************************************************************************)
(* Properties                                                              *)
(***************************************************************************)
RetryingStages == {"company", "contact", "research", "email"}

\* C1: in one call of a retrying stage with retries = r, agent.run is
\* invoked at most r + 1 times, for every r >= 0.
C1_AtMostRetriesPlusOneCalls ==
  stage \in RetryingStages /\ pc /= "raised" => calls <= retries + 1

\* C2: an exception raised by agent.run is recovered inside the stage; the
\* stage never ends by raising it.
C2_AgentErrorRecovered ==
  ~(pc = "raised" /\ err.at = "agent.run")

\* C3: whatever value the parser returned (a mapping of the wrong shape, a
\* null list, non-record items, a non-mapping value), the attempt counts as
\* empty and no exception leaves the stage.
C3_OddAnswerCountsAsEmpty ==
  ~(pc = "raised" /\ err.at = "payload")

\* every value json.loads yields for a contiguous part of s (s included)
LiteralsOf(s) ==
  {json_loads(SubSeq(s, i, j)).val : i \in 1..Len(s), j \in 1..Len(s)}
    \ {NoParse.val}

\* C4: parse_json_safe never raises; it returns the value parsed from the
\* whole text or from a literal taken out of it, or else exactly the default.
C4_ParseReturnsParsedOrDefault ==
  stage = "parse" /\ pc /= "call" =>
    /\ pc = "done"
    /\ \/ payload = default
       \/ payload \in LiteralsOf(json_text)

\* the text is no JSON value, and the literal taken out of it is returned
C4_Witness ==
  /\ stage = "parse" /\ pc = "done"
  /\ ~json_loads(json_text).ok
  /\ payload /= default

\* C5: in the payload run_company_finder returns, from the model or from the
\* search fallback, the website domains are pairwise distinct and none ends
\* with an entry of the exclusion list.
C5_DomainsDistinctAndAllowed ==
  stage = "company" /\ pc = "done" =>
    /\ \A i, j \in DOMAIN payload :
         i /= j => _domain(payload[i].website) /= _domain(payload[j].website)
    /\ \A i \in DOMAIN payload : \A ex \in EXCLUDE_DOMAINS :
         ~EndsWith(Lower(_domain(payload[i].website)), Lower(ex))

\* the model listed two companies of one domain and one of them is returned
C5_Witness ==
  /\ stage = "company" /\ pc = "done"
  /\ ~fallback
  /\ Len(payload) = 1
  /\ \E i, j \in DOMAIN raw :
       i /= j /\ _domain(raw[i].website) = _domain(raw[j].website)

\* C6: in the payload run_contact_finder returns, on the model path and on
\* the fallback path, each company has at most 2 contacts.
C6_AtMostTwoContacts ==
  stage = "contact" /\ pc = "done" =>
    \A i \in DOMAIN payload : Len(payload[i].contacts) <= 2

\* C7: in the payload run_contact_finder returns, a contact with
\* inferred = true has the email first.last@domain in lower case, domain
\* being the website domain of the company it is listed under.
C7_InferredEmailForm ==
  stage = "contact" /\ pc = "done" =>
    \A i \in DOMAIN payload : \A j \in DOMAIN payload[i].contacts :
      \A k \in DOMAIN companies :
        LET c == payload[i].contacts[j] IN
        c.inferred /\ companies[k].name = payload[i].company =>
          /\ c.email /= <<>>
          /\ c.email = Cat(Lower(FirstPart(c.name) \o <<T(".", "l", 1)>> \o LastPart(c.name)),
                           <<T("@", "l", 1)>> \o Lower(_domain(companies[k].website)))

\* C8: in the payload run_research returns, each company has at most 4
\* insights and no two of them are equal once surrounding whitespace is
\* removed and letters are lowercased.
C8_InsightsCappedAndUnique ==
  stage = "research" /\ pc = "done" =>
    \A i \in DOMAIN payload :
      LET ins == payload[i].insights IN
      /\ Len(ins) <= 4
      /\ \A a, b \in DOMAIN ins : a /= b => Lower(Strip(ins[a])) /= Lower(Strip(ins[b]))

\* the model listed more insights than are returned, and the cap is reached
C8_Witness ==
  /\ stage = "research" /\ pc = "done"
  /\ \E i \in DOMAIN payload :
       /\ Len(payload[i].insights) = 4
       /\ Len(raw[i].insights) > 4
       /\ \E a, b \in DOMAIN raw[i].insights :
            /\ raw[i].insights[a] /= raw[i].insights[b]
            /\ Lower(Strip(raw[i].insights[a])) = Lower(Strip(raw[i].insights[b]))

\* C9: in the payload run_research returns, every insight is 40 to 200
\* characters long.
C9_InsightLength ==
  stage = "research" /\ pc = "done" =>
    \A i \in DOMAIN payload : \A a \in DOMAIN payload[i].insights :
      /\ 40 <= StrLen(payload[i].insights[a])
      /\ StrLen(payload[i].insights[a]) <= 200

\* C10: run_quality_check over a non-empty email list returns a list of the
\* same length as the email list.
C10_OneResultPerEmail ==
  stage = "qc" /\ pc = "done" /\ emails /= <<>> => Len(payload) = Len(emails)

\* C11: the quality check makes no agent invocation and returns the empty list
\* when the email list is empty; with a non-empty list it makes exactly one
\* invocation, with no retry and no fallback; main() does not enter the
\* quality check when it is disabled.
C11_QualityCheckCalls ==
  /\ stage = "qc" /\ emails = <<>> => calls = 0 /\ (pc = "done" => payload = <<>>)
  /\ stage = "qc" /\ emails /= <<>> =>
       /\ calls = (IF pc = "loop" THEN 0 ELSE 1)
       /\ attempt = 0
       /\ ~fallback
  /\ main /= "" /\ ~qc_enabled => stage /= "qc"

C11_Witness ==
  main = "ok" /\ stage = "qc" /\ qc_enabled /\ emails /= <<>> /\ calls = 1 /\ payload /= <<>>

\* C12: in a run with retries = 1, fallbacks enabled and no search available,
\* a contact, research or email stage that is given zero companies makes no
\* agent invocation and no search, and returns the empty payload.
C12_ZeroCompaniesNoInvocation ==
  /\ main /= "" /\ retries = 1 /\ allow_fallbacks /\ ~exa
  /\ stage \in {"contact", "research", "email"}
  /\ companies = <<>>
  => /\ calls = 0
     /\ pc /= "search"
     /\ pc = "done" => payload = <<>>

\* C13: once a pass of a stage has yielded records the stage makes no further
\* agent invocation and does not invoke its fallback (`attempt` counts the
\* passes that ended empty); records at the first pass give exactly one agent
\* invocation, also when normalize_companies then drops them.
C13_StopAtFirstRecords ==
  stage \in RetryingStages /\ pc /= "raised" =>
    /\ pc = "loop" => payload = <<>> /\ calls = attempt
    /\ fallback => calls = attempt
    /\ calls /= attempt => /\ calls = attempt + 1
                           /\ pc \in {"after", "done"}
                           /\ (IF pc = "done" /\ stage \in {"company", "research"}
                               THEN raw ELSE payload) /= <<>>

C13_Witness ==
  /\ stage = "company" /\ pc = "done"
  /\ retries = MaxRetries /\ allow_fallbacks /\ exa
  /\ attempt = 0 /\ calls = 1 /\ ~fallback
  /\ raw /= <<>> /\ payload = <<>>

\* C14: a stage invokes its fallback only when allow_fallbacks is true and
\* every pass of the loop has been made and ended empty; with fallbacks
\* disabled, a stage whose passes all ended empty returns the empty payload
\* and raises nothing.
C14_FallbackOnlyWhenAllowed ==
  /\ [](stage \in RetryingStages /\ fallback =>
          /\ allow_fallbacks
          /\ calls = attempt
          /\ attempt = LoopBound(retries) + 1)
  /\ [][(stage \in RetryingStages /\ ~allow_fallbacks /\ pc = "after" /\ payload = <<>>)
        => (pc' = "done" /\ payload' = <<>> /\ fallback' = FALSE /\ err' = NoErr)]_vars

C14_Witness ==
  /\ stage = "email" /\ pc = "done" /\ companies /= <<>>
  /\ ~allow_fallbacks /\ ~fallback
  /\ attempt = LoopBound(retries) + 1 /\ calls = attempt
  /\ payload = <<>> /\ err = NoErr

\* C15: no exception escapes a fallback strategy (company discovery, contact
\* discovery, research collection, template emails), whatever the search
\* does or returns.
C15_NoExceptionEscapesFallback == fallback => err.at /= "fallback"

\* the follow-up lines, each after one newline
RECURSIVE Listing(_)
Listing(fus) ==
  IF fus = <<>> THEN <<>> ELSE <<Nl(1), Dash, Sp, fus[1]>> \o Listing(Tail(fus))

\* C16: for a record of the answer with a non-empty list of follow-ups, the
\* stored email's body is the record's body, then a blank line, a rule and the
\* label "Follow-ups:", then every follow-up as a "- " line in the order of
\* the list; the stored email has no followups field.
C16_FollowupsMergedIntoBody ==
  stage = "email" /\ pc = "after" /\ ~fallback /\ payload /= <<>> =>
    /\ Len(payload) = Len(raw)
    /\ \A i \in DOMAIN raw :
         /\ DOMAIN payload[i] = {"company", "contact", "subject", "body"}
         /\ raw[i].followups /= <<>> /\ raw[i].fu_list =>
              payload[i].body =
                CatAll(<<raw[i].body, Nl(2), <<T("-", "l", 3)>>, Nl(1),
                         <<T("followups", "C", 11)>>>> \o Listing(raw[i].followups))

C16_Witness ==
  /\ stage = "email" /\ pc = "after" /\ ~fallback /\ payload /= <<>>
  /\ \E i \in DOMAIN raw :
       /\ Len(raw[i].followups) = 2 /\ raw[i].fu_list
       /\ raw[i].followups[1] /= raw[i].followups[2]
       /\ raw[i].body /= <<>>

\* the contacts that the entries of cts list for the company called name
RECURSIVE ListedFor(_, _)
ListedFor(cts, name) ==
  IF cts = <<>> THEN <<>>
  ELSE (IF cts[1].company = name THEN cts[1].contacts ELSE <<>>) \o ListedFor(Tail(cts), name)

\* the emails of the payload for a company and a contact name
EmailsTo(name, contact) ==
  SelectSeq(payload, LAMBDA e : e.company = name /\ e.contact = contact)

\* C17: the payload of the template fallback holds exactly one email for each
\* company and each contact that the contacts payload lists for it, exactly
\* one email for each company with no contact listed, and no other email.
C17_OneEmailPerPair ==
  stage = "email" /\ fallback /\ pc \in {"post", "done"} =>
    /\ \A k \in DOMAIN companies :
         LET name == companies[k].name
             cts == ListedFor(contacts, name)
             mine == SelectSeq(payload, LAMBDA e : e.company = name)
         IN IF cts = <<>>
            THEN Len(mine) = 1
            ELSE /\ Len(mine) = Len(cts)
                 /\ \A j \in DOMAIN cts : Len(EmailsTo(name, cts[j].name)) = 1
    /\ \A i \in DOMAIN payload : \E k \in DOMAIN companies : payload[i].company = companies[k].name

\* a company for which the contacts payload lists no contact
NoContacts(k) == ListedFor(contacts, companies[k].name) = <<>>

C19_SubjectAndSignature ==
  stage = "email" /\ fallback /\ pc \in {"post", "done"} =>
    \A i \in DOMAIN payload :
      /\ payload[i].subject /= <<>>
      /\ Contains(payload[i].body, sender.name)
      /\ Contains(payload[i].body, sender.company)

C19_Witness ==
  /\ stage = "email" /\ fallback /\ pc = "done"
  /\ sender.name /= <<>> /\ sender.company /= <<>>
  /\ Len(payload) > 1

\* C20: with fallbacks enabled and at least one company, the email stage ends,
\* whatever the agent answered without raising, by returning a non-empty payload.
C20_EmailsNeverEmpty ==
  /\ stage = "email" /\ allow_fallbacks /\ companies /= <<>>
  /\ pc \in {"done", "raised"} /\ err.at /= "agent.run"
  => pc = "done" /\ payload /= <<>>

\* the stages in the order of main(), and the export each one ends with
StageOrder == <<"company", "contact", "research", "email", "qc">>

ExportOrder == <<"companies", "contacts", "research", "emails", "qc">>

StageIndex(s) == CHOOSE i \in DOMAIN StageOrder : StageOrder[i] = s

ExportsBefore(s) == {ExportOrder[i] : i \in 1..(StageIndex(s) - 1)}

\* C21: main() runs the stages in the order company, contact, research,
\* email, quality check; while a stage runs the exports of exactly the stages
\* before it are written; an export once written stays; a stage that raises
\* is followed by no stage: the run goes to "failed" with its exports as
\* they were, and nothing happens after "ok" or "failed".
C21_StagesInOrder ==
  /\ [](main /= "" =>
          exports = ExportsBefore(stage)
                      \cup (IF main = "ok" THEN {ExportOrder[StageIndex(stage)]} ELSE {}))
  /\ [][(main /= "") =>
          (/\ (stage' /= stage) => (pc = "done" /\ StageIndex(stage') = StageIndex(stage) + 1)
           /\ exports \subseteq exports'
           /\ (pc = "raised") => (main' = "failed" /\ stage' = stage /\ exports' = exports)
           /\ (main \in {"ok", "failed"}) => FALSE)]_vars

C21_Witness ==
  /\ main = "failed" /\ stage = "research" /\ pc = "raised"
  /\ exports = {"companies", "contacts"}
  /\ companies /= <<>> /\ contacts /= <<>>

\* C22: a call of normalize_companies or clean_research leaves every object
\* that existed before it as it was (the payload given and each record in
\* it), and what it returns is a list object that did not exist before.
C22_InputNotModified ==
  [][(stage \in {"normalize_companies", "clean_research"}) =>
       (/\ \A id \in DOMAIN heap.objs :
             id \in DOMAIN heap'.objs /\ heap'.objs[id] = heap.objs[id]
        /\ heap'.arg = heap.arg
        /\ heap'.res \in DOMAIN heap'.objs \ DOMAIN heap.objs
        /\ heap'.objs[heap'.res].list)]_vars

C22_Witness ==
  /\ stage = "normalize_companies" /\ pc = "done"
  /\ Len(Deref(heap, heap.arg)) = 2
  /\ Len(Deref(heap, heap.res)) = 1
  /\ Deref(heap, heap.res)[1] /= Deref(heap, heap.arg)[1]
  /\ Deref(heap, heap.res)[1] /= Deref(heap, heap.arg)[2]

IsPrefix(a, b) == Len(a) <= Len(b) /\ SubSeq(b, 1, Len(a)) = a

\* C23: in the contact and research fallbacks no outcome of a search, a raise
\* included, ends the strategy: a step of the search either goes on to the
\* next role or query of the same company with what was accumulated kept, or
\* closes the company with an entry made of what was accumulated (up to the
\* cap); the roles are left early only with CONTACTS_MAX contacts; and the
\* strategy returns one entry per company given, in order.
C23_SearchErrorAbortsOnlyQuery ==
  /\ [][(stage \in {"contact", "research"} /\ pc = "search") =>
          LET cap == IF stage = "contact" THEN CONTACTS_MAX ELSE INSIGHTS_MAX
              last == IF stage = "contact" THEN Len(ROLES) ELSE QUERIES
              field == IF stage = "contact" THEN "contacts" ELSE "insights"
              done == IF pc' = "post" THEN payload' ELSE out'
          IN (/\ pc' \in {"search", "post"}
              /\ err' = NoErr
              /\ \/ /\ pc' = "search" /\ ci' = ci /\ qi' = qi + 1
                    /\ IsPrefix(acc, acc') /\ out' = out
                 \/ /\ (qi = last) \/ (stage = "contact" /\ Len(done[ci][field]) = cap)
                    /\ Len(done) = ci /\ IsPrefix(out, done)
                    /\ done[ci].company = companies[ci].name
                    /\ IsPrefix(Prefix(acc, cap), done[ci][field])
                    /\ \/ pc' = "search" /\ ci' = ci + 1 /\ qi' = 1 /\ acc' = <<>>
                       \/ pc' = "post" /\ ci = Len(companies))]_vars
  /\ [](stage \in {"contact", "research"} /\ fallback /\ exa /\ pc = "post" =>
          /\ Len(payload) = Len(companies)
          /\ \A i \in DOMAIN payload : payload[i].company = companies[i].name)

C23_Witness ==
  /\ stage = "research" /\ pc = "post" /\ fallback /\ exa
  /\ Len(companies) = 2 /\ Len(payload) = 2
  /\ payload[1].insights /= <<>> /\ payload[2].insights = <<>>

\* C24: when a search of the contact fallback, made for a role while the
\* company has no contact yet, returns a first result whose title begins with
\* a "Capitalized Capitalized" name, the company gets a contact with that
\* name, that role, inferred = true and the email first.last@domain in lower
\* case.
C24_NamedTitleGivesContact ==
  [][(stage = "contact" /\ pc = "search" /\ acc = <<>> /\ lead' /= <<>>) =>
       LET got == IF pc' = "post" THEN payload'[ci].contacts
                  ELSE IF ci' = ci THEN acc' ELSE out'[ci].contacts
           domain == _domain(companies[ci].website)
       IN \E j \in DOMAIN got :
            /\ got[j].name = lead'
            /\ got[j].role = ROLES[qi]
            /\ got[j].inferred
            /\ got[j].email = Cat(Lower(FirstPart(lead') \o <<T(".", "l", 1)>> \o LastPart(lead')),
                                  <<T("@", "l", 1)>> \o Lower(domain))]_vars

RoleIndex(role) == CHOOSE i \in DOMAIN ROLES : ROLES[i] = role

\* C25: contact discovery queries the roles in the order of the list, one
\* after the other from the first for each company; it issues no query once
\* the company has 2 contacts; the contacts returned for a company are in the
\* order of the roles.
C25_RolesInPriorityOrder ==
  /\ [](stage \in {"contact", "exa_find_contacts"} /\ pc = "search"
          => qi \in DOMAIN ROLES /\ Len(acc) < CONTACTS_MAX)
  /\ [][(stage \in {"contact", "exa_find_contacts"} /\ pc' = "search") =>
         (IF pc = "search" /\ ci' = ci THEN qi' = qi + 1 ELSE qi' = 1 /\ acc' = <<>>)]_vars
  /\ [](stage \in {"contact", "exa_find_contacts"} /\ (fallback \/ stage = "exa_find_contacts")
          /\ pc \in {"post", "done"}
          => \A e \in DOMAIN payload :
               /\ Len(payload[e].contacts) <= CONTACTS_MAX
               /\ \A i, j \in DOMAIN payload[e].contacts :
                    i < j => RoleIndex(payload[e].contacts[i].role)
                               <= RoleIndex(payload[e].contacts[j].role))

\* C26: the company-discovery fallback asks the search for 2 x limit results
\* and, for every limit >= 0, returns at most limit companies.
C26_AtMostLimitCompanies ==
  stage = "discover_companies_via_exa" /\ pc = "done"
    => /\ exa => num_results = 2 * num_companies
       /\ Len(payload) <= num_companies

\* the candidate that the first result of the search is
FirstCandidate == raw.items[1]

\* the first result is a candidate the relevance test decides on: its fields
\* can be read and its domain is not excluded
DecidedOnRelevance ==
  /\ stage = "discover_companies_via_exa" /\ pc = "done"
  /\ exa /\ ~raw.raised /\ raw.items /= <<>> /\ num_companies >= 1
  /\ ~_excluded(_domain(FirstCandidate.url), EXCLUDE_DOMAINS)

\* C27: a candidate that is not excluded and is the first of its domain is
\* kept exactly when its derived name together with its snippet text contains
\* a keyword of the domain.
C27_KeptIffNameOrSnippetRelevant ==
  DecidedOnRelevance =>
    LET r == FirstCandidate
        name == _infer_company_name(r.title, r.url)
        snippet == Or(r.text, r.title)
    IN (payload /= <<>> /\ payload[1].website = r.url)
         <=> HasWord(name \o Sp \o snippet, FASHION_WORDS)

\* C28: what collect_research_via_exa returns, before the stage cleans it,
\* has per company at most 4 insights, no two of them equal once surrounding
\* whitespace is removed and letters are lowercased, whichever of the two
\* queries they came from.
C28_FallbackInsightsCappedAndUnique ==
  stage = "research" /\ pc = "post" /\ fallback =>
    \A i \in DOMAIN payload :
      LET ins == payload[i].insights IN
      /\ Len(ins) <= INSIGHTS_MAX
      /\ \A a, b \in DOMAIN ins : a /= b => Lower(Strip(ins[a])) /= Lower(Strip(ins[b]))

\* the first balanced, valid literal of s at or after position i: the value
\* that parses at the leftmost opening bracket where one parses
RECURSIVE FirstLiteral(_, _)
FirstLiteral(s, i) ==
  IF i > Len(s) THEN NoParse
  ELSE LET v == JsonValue(SelectSeq(SubSeq(s, i, Len(s)), LAMBDA t : t /= " ")) IN
       IF s[i] \in {"{", "["} /\ v.ok THEN v ELSE FirstLiteral(s, i + 1)

\* C29: when the whole text is no valid value, parse_json_safe returns the
\* parse of the first balanced, valid literal in the text, whatever follows
\* that literal, and the default only when the text holds no such literal.
C29_FirstLiteralParsed ==
  stage = "parse" /\ pc = "done" /\ json_text /= <<>> /\ ~json_loads(json_text).ok =>
    LET first == FirstLiteral(json_text, 1) IN
    IF first.ok THEN payload = first.val ELSE payload = default

\* C30: the payload the company-discovery fallback produced is already
\* filtered: the normalization that follows removes no company from it and
\* changes no company's name or why_fit.
C30_FallbackPayloadAlreadyNormal ==
  stage = "company" /\ pc = "done" /\ fallback =>
    /\ Len(payload) = Len(raw)
    /\ \A i \in DOMAIN payload :
         /\ payload[i].website = raw[i].website
         /\ payload[i].name = raw[i].name
         /\ payload[i].why_fit = raw[i].why_fit

\* C31: the payload run_company_finder returns never holds more than
\* num_companies companies, whether they came from the model or from the
\* fallback.
C31_AtMostNumCompanies ==
  stage = "company" /\ pc = "done" => Len(payload) <= num_companies

\* C32: with fallbacks enabled, whenever run_company_finder or run_research
\* returns an empty payload, its fallback strategy was invoked during the
\* call.
C32_EmptyReturnMeansFallbackRan ==
  stage \in {"company", "research"} /\ pc = "done" /\ allow_fallbacks /\ payload = <<>>
    => fallback

\* C33: normalize_companies is idempotent: applied to its own result, with
\* the same exclusion list, it returns the same companies with the same names
\* and why_fit texts.
C33_NormalizeIdempotent ==
  stage = "normalize_companies" /\ pc = "twice" => payload = raw

\* C34: every agent and search call returning or raising, a run of the
\* pipeline eventually reaches a terminal state, success or failure, and
\* takes no step after it: it reaches exactly one of the two, whatever the
\* retries value and the outcomes of the calls.
C34_RunReachesOneTerminalState ==
  /\ <>(main \in {"ok", "failed"})
  /\ [][main = "run"]_vars

\* a run whose stages used their retries and that ended in success after the
\* quality check
C34_Witness ==
  /\ main = "ok" /\ "qc" \in exports
  /\ retries > 0 /\ calls > 0

====
